---- MODULE Spec2Model ----
(***************************************************************************)
(* gh-report: the concurrent collection pipeline (report.Collect and       *)
(* report.collectRepo) and the filtering applied while a repository        *)
(* aggregate is assembled.                                                 *)
(*                                                                         *)
(* Strings that the code splits (repository identifiers) are sequences of  *)
(* one-character strings; instants are integers (days); a nil timestamp is *)
(* NilTime; a nil slice and an empty slice are both <<>>; a nil error is   *)
(* NoErr.                                                                  *)
(***************************************************************************)
EXTENDS Integers, Sequences, FiniteSets, TLC

\* ------------------------------------------------------------------ bounds

\* Longest repository list given to Collect.
MaxRepos == 2
\* Longest pull-request listing the data source returns to Collect.
MaxPRs == 3
\* Longest repository list of a run in which the caller cancels ctx.
MaxCancelRepos == 1
\* Most transport failures the data source injects into one run.
MaxFaults == 1
\* Longest raw listing handed to the assembly in SpecAssemble.
MaxRaw == 2
\* The instant of the call (time.Now()), in days.
Now == 3

\* ----------------------------------------------------------- basic values

NilTime == -1
NoErr == <<>>
NoUser == ""

\* t.Before(u) of package time.
Before(t, u) == t < u

\* Options.Days of the runs explored.
LookbackDays == 1

\* since := time.Now().AddDate(0, 0, -opts.Days)
SinceOf(now, days) == now - days

Min(a, b) == IF a < b THEN a ELSE b

\* A Go map read: the zero value (a nil slice) when the key is absent.
MapGet(m, k) == IF k \in DOMAIN m THEN m[k] ELSE <<>>

\* A Go map write m[k] = v.
MapPut(m, k, v) == [x \in (DOMAIN m) \cup {k} |-> IF x = k THEN v ELSE m[x]]

\* -------------------------------------------------- repository identifiers

RepoIds ==
    { <<"a", "/", "x">>, <<"a", "/", "y">>, <<"b", "/", "x">>, <<"a", "x">> }

\* Index of the first separator of s, 0 when there is none.
IndexOfSep(s) ==
    IF \E i \in 1..Len(s) : s[i] = "/"
    THEN CHOOSE i \in 1..Len(s) : s[i] = "/" /\ \A j \in 1..(i - 1) : s[j] # "/"
    ELSE 0

\* strings.SplitN(fullRepo, "/", 2)
SplitN2(s) ==
    LET i == IndexOfSep(s)
    IN  IF i = 0 THEN <<s>>
        ELSE <<SubSeq(s, 1, i - 1), SubSeq(s, i + 1, Len(s))>>

\* Index of the first entry Collect's parsing loop rejects, 0 when none.
FirstMalformed(list) ==
    IF \E i \in 1..Len(list) : Len(SplitN2(list[i])) # 2
    THEN CHOOSE i \in 1..Len(list) :
            /\ Len(SplitN2(list[i])) # 2
            /\ \A j \in 1..(i - 1) : Len(SplitN2(list[j])) = 2
    ELSE 0

\* Mutant: an entry that repeats an earlier one is dropped.
ParseReposDistinct(list) ==
    LET first == {i \in 1..Len(list) : \A j \in 1..(i - 1) : list[j] # list[i]}
        nth(k) == CHOOSE i \in first : Cardinality({j \in first : j <= i}) = k
    IN  [k \in 1..Cardinality(first) |->
            [owner |-> SplitN2(list[nth(k)])[1], repo |-> SplitN2(list[nth(k)])[2]]]

\* repos[i] = repoInfo{owner: parts[0], repo: parts[1]}
ParseRepos(list) ==
    [i \in 1..Len(list) |->
        [owner |-> SplitN2(list[i])[1], repo |-> SplitN2(list[i])[2]]]

\* owners[parts[0]] = struct{}{}
OwnersOf(parsed) == {parsed[i].owner : i \in 1..Len(parsed)}

\* ------------------------------------------------------------ the records

Users == {"alice", "bob"}

\* The instants a record of the explored inputs carries: before, at and
\* after the lookback cutoff Now - LookbackDays.
Times == (Now - 2)..Now

Max2(a, b) == IF a > b THEN a ELSE b

\* gh.PullRequest, the fields the collection reads, as GitHub fills them: an
\* open pull request has no closed or merged time, a merged one is closed at
\* its merge time, and updatedAt is not before any lifecycle time.
PullRequests(n) ==
    { pr \in [number : {n}, user : Users, state : {"open", "closed"},
              createdAt : Times, mergedAt : Times \cup {NilTime},
              closedAt : Times \cup {NilTime}, updatedAt : Times] :
        /\ pr.state = "open" => pr.mergedAt = NilTime /\ pr.closedAt = NilTime
        /\ pr.state = "closed" => pr.closedAt # NilTime /\ pr.createdAt <= pr.closedAt
        /\ pr.mergedAt # NilTime => pr.mergedAt = pr.closedAt
        /\ pr.updatedAt >= Max2(pr.createdAt, pr.closedAt) }

\* gh.Issue: isPR is IsPullRequest() (PullRequestLinks != nil).
Issues(n) ==
    { is \in [number : {n}, user : Users, isPR : BOOLEAN, state : {"open", "closed"},
              createdAt : Times, closedAt : Times \cup {NilTime}] :
        /\ is.state = "open" => is.closedAt = NilTime
        /\ is.state = "closed" => is.closedAt # NilTime /\ is.createdAt <= is.closedAt }

\* gh.IssueComment / gh.PullRequestComment: author, creation time and the
\* number of the issue or pull request commented on.
Comments == [user : Users, createdAt : Times, number : 1..2]

\* Listings of at most n records, the k-th drawn from Pool(k).
RECURSIVE Listings(_, _)
Listings(Pool(_), n) ==
    IF n = 0 THEN {<<>>}
    ELSE LET shorter == Listings(Pool, n - 1)
         IN  shorter \cup {Append(s, r) : s \in {t \in shorter : Len(t) = n - 1}, r \in Pool(n)}

CommentPool(n) == Comments

\* ------------------------------------------------- filtering during assembly

\* Mutant: a timestamp counts only when it is after the cutoff.
prHasActivitySinceStrict(pr, since) ==
    \/ pr.state = "open"
    \/ Before(since, pr.createdAt)
    \/ pr.mergedAt # NilTime /\ Before(since, pr.mergedAt)
    \/ pr.closedAt # NilTime /\ Before(since, pr.closedAt)

\* Mutant: a timestamp counts only within one instant of the cutoff.
prHasActivitySinceWindow(pr, since) ==
    \/ pr.state = "open"
    \/ \E t \in {pr.createdAt, pr.mergedAt, pr.closedAt} :
          t # NilTime /\ ~Before(t, since) /\ ~Before(since + 1, t)

\* Mutant: a pull request also counts as active when only its updatedAt is
\* at or after the cutoff.
prHasActivitySinceUpdated(pr, since) ==
    \/ pr.state = "open"
    \/ ~Before(pr.createdAt, since)
    \/ pr.mergedAt # NilTime /\ ~Before(pr.mergedAt, since)
    \/ pr.closedAt # NilTime /\ ~Before(pr.closedAt, since)
    \/ ~Before(pr.updatedAt, since)

\* prHasActivitySince(pr, since)
prHasActivitySince(pr, since) ==
    IF pr.state = "open" THEN TRUE
    ELSE IF ~Before(pr.createdAt, since) THEN TRUE
    ELSE IF pr.mergedAt # NilTime /\ ~Before(pr.mergedAt, since) THEN TRUE
    ELSE IF pr.closedAt # NilTime /\ ~Before(pr.closedAt, since) THEN TRUE
    ELSE FALSE

\* Mutant: the issues loop without its IsPullRequest() check.
RECURSIVE KeepIssuesWithPRs(_, _)
KeepIssuesWithPRs(raw, user) ==
    IF raw = <<>> THEN <<>>
    ELSE LET issue == Head(raw)
             rest == KeepIssuesWithPRs(Tail(raw), user)
         IN  IF user = NoUser \/ issue.user = user THEN <<issue>> \o rest ELSE rest

\* for _, issue := range rawIssues { ... rr.Issues = append(rr.Issues, issue) }
RECURSIVE KeepIssues(_, _)
KeepIssues(raw, user) ==
    IF raw = <<>> THEN <<>>
    ELSE LET issue == Head(raw)
             rest == KeepIssues(Tail(raw), user)
         IN  IF issue.isPR THEN rest
             ELSE IF user = NoUser \/ issue.user = user THEN <<issue>> \o rest
             ELSE rest

\* for _, pr := range rawPRs { ... rr.PullRequests = append(rr.PullRequests, pr) }
RECURSIVE KeepPullRequests(_, _, _)
KeepPullRequests(raw, user, since) ==
    IF raw = <<>> THEN <<>>
    ELSE LET pr == Head(raw)
             rest == KeepPullRequests(Tail(raw), user, since)
         IN  IF user # NoUser /\ pr.user # user THEN rest
             ELSE IF ~prHasActivitySince(pr, since) THEN rest
             ELSE <<pr>> \o rest

\* for _, c := range rawComments { ... rr.IssueComments = append(...) }
RECURSIVE KeepIssueComments(_, _)
KeepIssueComments(raw, user) ==
    IF raw = <<>> THEN <<>>
    ELSE LET c == Head(raw)
             rest == KeepIssueComments(Tail(raw), user)
         IN  IF user = NoUser \/ c.user = user THEN <<c>> \o rest ELSE rest

\* for _, rc := range rawRevComments { ... rr.ReviewComments = append(...) }
RECURSIVE KeepReviewComments(_, _)
KeepReviewComments(raw, user) ==
    IF raw = <<>> THEN <<>>
    ELSE LET rc == Head(raw)
             rest == KeepReviewComments(Tail(raw), user)
         IN  IF user = NoUser \/ rc.user = user THEN <<rc>> \o rest ELSE rest

\* rr := &RepoReport{Owner: owner, Repo: repo, Reviews: make(map...)}
NewRepoReport(owner, repo) ==
    [Owner |-> owner, Repo |-> repo, Issues |-> <<>>, PullRequests |-> <<>>,
     IssueComments |-> <<>>, ReviewComments |-> <<>>, Reviews |-> <<>>,
     Projects |-> <<>>]

\* The zero RepoReport of make([]RepoReport, n).
ZeroReport == NewRepoReport(<<>>, <<>>)

\* collectRepo between the tier-2 join and the tier-3 fan-out: the four
\* filtering loops over the raw listings.
Assemble(owner, repo, rawIssues, rawPRs, rawComments, rawRevComments, user, since) ==
    [NewRepoReport(owner, repo) EXCEPT
        !.Issues = KeepIssues(rawIssues, user),
        !.PullRequests = KeepPullRequests(rawPRs, user, since),
        !.IssueComments = KeepIssueComments(rawComments, user),
        !.ReviewComments = KeepReviewComments(rawRevComments, user)]

\* ------------------------------------- the data source, as Collect sees it

\* The four tier-2 listings of one repository.
Ops == {"issues", "prs", "comments", "revcomments"}

\* What a failed call returns: a transport/auth failure, or the context's
\* error once the caller's context is cancelled.  "" is a nil error.
ErrTransport == "transport"
ErrCanceled == "context canceled"

\* The k-th pull request of a repository of the explored data source: open,
\* then closed long ago but touched since (automated noise), then merged
\* today, then somebody else's.
SourcePR(k) ==
    CASE k % 4 = 1 ->
            [number |-> k, user |-> "alice", state |-> "open", createdAt |-> Now - 2,
             mergedAt |-> NilTime, closedAt |-> NilTime, updatedAt |-> Now]
      [] k % 4 = 2 ->
            [number |-> k, user |-> "alice", state |-> "closed", createdAt |-> Now - 2,
             mergedAt |-> NilTime, closedAt |-> Now - 2, updatedAt |-> Now]
      [] k % 4 = 3 ->
            [number |-> k, user |-> "alice", state |-> "closed", createdAt |-> Now - 2,
             mergedAt |-> Now, closedAt |-> Now, updatedAt |-> Now]
      [] OTHER ->
            [number |-> k, user |-> "bob", state |-> "open", createdAt |-> Now,
             mergedAt |-> NilTime, closedAt |-> NilTime, updatedAt |-> Now]

\* client.ListPullRequests: the first n pull requests of the repository.
SourcePRListing(n) == [k \in 1..n |-> SourcePR(k)]

\* client.ListIssues: issues and, as the endpoint does, pull requests too.
SourceIssues ==
    << [number |-> 10, user |-> "alice", isPR |-> FALSE, state |-> "closed",
        createdAt |-> Now - 2, closedAt |-> Now - 2],
       [number |-> 1, user |-> "alice", isPR |-> TRUE, state |-> "open",
        createdAt |-> Now - 2, closedAt |-> NilTime],
       [number |-> 11, user |-> "bob", isPR |-> FALSE, state |-> "open",
        createdAt |-> Now, closedAt |-> NilTime] >>

\* client.ListIssueComments
SourceComments ==
    << [user |-> "bob", createdAt |-> Now, number |-> 1],
       [user |-> "alice", createdAt |-> Now, number |-> 2] >>

\* client.ListReviewComments
SourceReviewComments ==
    << [user |-> "alice", createdAt |-> Now, number |-> 2] >>

\* client.ListReviews(prNumber)
SourceReviews(n) ==
    IF n % 4 = 1 THEN << [user |-> "bob", state |-> "APPROVED"] >> ELSE <<>>

\* client.ListProjects(org) on success.
SourceProjects(org) == << [Title |-> org, Number |-> 1] >>

\* ------------------------------------------------------------------ errors

\* fmt.Errorf("invalid repo format %q, expected owner/repo", fullRepo)
ErrInvalidRepo(fullRepo) == <<"invalid repo format", fullRepo, <<>>, 0, "">>

\* fmt.Errorf("listing ... for %s/%s: %w", owner, repo, err)
ErrListing(what, owner, repo, cause) == <<what, owner, repo, 0, cause>>

\* fmt.Errorf("listing reviews for %s/%s#%d: %w", owner, repo, number, err)
ErrReviews(owner, repo, number, cause) == <<"listing reviews", owner, repo, number, cause>>

\* errors.Unwrap: the cause a wrapped error carries.
Cause(err) == IF err = NoErr THEN "" ELSE err[5]

\* ------------------------------------------------------------------- state

VARIABLES
    pc,           \* Collect's own position: "start", "wait" (at wg.Wait), "done"
    optsRepos,    \* opts.Repos
    optsUser,     \* opts.User
    cancelled,    \* ctx is cancelled
    faults,       \* transport failures injected so far
    cancelHit,    \* the kinds of retrieval that were in flight when ctx was cancelled
    repos,        \* the parsed repository list
    orgPc,        \* per owner, the project goroutine: "fetching", "returned", "locked", "done"
    orgRes,       \* per owner, what client.ListProjects returned
    mu,           \* the holders of the mutex mu (empty: unlocked)
    orgProjects,  \* the map orgProjects
    task,         \* per repository index, the collectRepo goroutine
    reports,      \* the slice reports
    repoErrs,     \* the slice repoErrs
    ret,          \* what Collect returned
    issued,       \* how often each data-source operation was called
    writes,       \* how often each shared location was written, and by whom
    progress,     \* the progress observer handed to Collect and the calls it has recorded
    asm           \* the sequential specifications: the call under way, its inputs and results

vars ==
    << pc, optsRepos, optsUser, cancelled, faults, cancelHit, repos, orgPc, orgRes, mu,
       orgProjects, task, reports, repoErrs, ret, issued, writes, progress, asm >>

collectVars ==
    << pc, optsRepos, optsUser, cancelled, faults, cancelHit, repos, orgPc, orgRes, mu,
       orgProjects, task, reports, repoErrs, ret, issued, writes, progress >>

Since == SinceOf(Now, LookbackDays)

\* Collect has not returned.
NotReturned == [isNil |-> TRUE, reports |-> <<>>, err |-> NoErr, returns |-> 0]

\* The collectRepo goroutine of one repository as it starts: rr, the four
\* listings in flight, nothing received.
NewTask(owner, repo) ==
    [pc |-> "tier2",
     st |-> [op \in Ops |-> "inflight"],
     err |-> [op \in Ops |-> ""],
     raw |-> [op \in Ops |-> <<>>],
     rr |-> NewRepoReport(owner, repo),
     revSt |-> <<>>, revRes |-> <<>>, revErr |-> <<>>]

NoAsm == [phase |-> "off"]

\* The Progress values a caller can hand to Collect: none (nil), one whose
\* methods do nothing, and one that records the calls it receives.
Observers == {"nil", "noop", "recording"}

\* An observer before Collect has called it: per repository index, the
\* totals received by SetTotal and the number of calls of Increment.
NewProgress(impl) == [impl |-> impl, totals |-> <<>>, steps |-> <<>>]

\* if progress != nil { progress.Increment(repoIndex) }
Increment(p, repoIndex) ==
    IF p.impl = "recording" THEN [p EXCEPT !.steps[repoIndex] = @ + 1] ELSE p

\* if progress != nil { progress.SetTotal(repoIndex, total) }
SetTotal(p, repoIndex, total) ==
    IF p.impl = "recording" THEN [p EXCEPT !.totals[repoIndex] = Append(@, total)] ELSE p

\* The repository lists explored: every list of at most MaxRepos identifiers
\* whose first entry is a/x or the malformed one (any other list is one of
\* these with owners and repository names renamed).
RepoLists ==
    { l \in UNION {[1..n -> RepoIds] : n \in 0..MaxRepos} :
        Len(l) > 0 => l[1] \in {<<"a", "/", "x">>, <<"a", "x">>} }

\* The state at the call of Collect with one of the given repository lists
\* and one of the given observers.
CollectCalled(lists, impls) ==
    /\ pc = "start"
    /\ optsRepos \in lists
    /\ optsUser = "alice"
    /\ cancelled = FALSE
    /\ faults = 0
    /\ cancelHit = {}
    /\ repos = <<>>
    /\ orgPc = <<>>
    /\ orgRes = <<>>
    /\ mu = {}
    /\ orgProjects = <<>>
    /\ task = <<>>
    /\ reports = <<>>
    /\ repoErrs = <<>>
    /\ ret = NotReturned
    /\ issued = [projects |-> <<>>, list |-> <<>>, reviews |-> <<>>]
    /\ writes = [reports |-> <<>>, errs |-> <<>>, review |-> <<>>, map |-> <<>>,
                 unlocked |-> 0, early |-> 0]
    /\ \E impl \in impls : progress = NewProgress(impl)
    /\ asm = NoAsm

Init == CollectCalled(RepoLists, {"recording"})

\* ------------------------------------------------------------------ Collect

\* Mutant: the goroutines of the entries before the malformed one are
\* started before the malformed one is seen.
CollectInvalidAfterSpawn ==
    /\ pc = "start"
    /\ FirstMalformed(optsRepos) # 0
    /\ pc' = "done"
    /\ ret' = [isNil |-> TRUE, reports |-> <<>>,
               err |-> ErrInvalidRepo(optsRepos[FirstMalformed(optsRepos)]),
               returns |-> ret.returns + 1]
    /\ issued' = [issued EXCEPT !.list =
                     [i \in 1..(FirstMalformed(optsRepos) - 1) |-> [op \in Ops |-> 1]]]
    /\ UNCHANGED << optsRepos, optsUser, cancelled, faults, cancelHit, repos, orgPc, orgRes,
                    mu, orgProjects, task, reports, repoErrs, writes, progress, asm >>

\* Collect, the parsing loop hitting an entry that does not split in two:
\* return nil, fmt.Errorf("invalid repo format ...").
CollectInvalid ==
    /\ pc = "start"
    /\ FirstMalformed(optsRepos) # 0
    /\ pc' = "done"
    /\ ret' = [isNil |-> TRUE, reports |-> <<>>,
               err |-> ErrInvalidRepo(optsRepos[FirstMalformed(optsRepos)]),
               returns |-> ret.returns + 1]
    /\ UNCHANGED << optsRepos, optsUser, cancelled, faults, cancelHit, repos, orgPc, orgRes, mu,
                    orgProjects, task, reports, repoErrs, issued, writes, progress, asm >>

\* Collect from the parsing loop to wg.Wait(): one project goroutine per
\* distinct owner and one collectRepo goroutine per entry, each of which
\* starts its four listing goroutines.
CollectSpawn ==
    /\ pc = "start"
    /\ FirstMalformed(optsRepos) = 0
    /\ LET parsed == ParseRepos(optsRepos)
           owners == OwnersOf(parsed)
           idx == 1..Len(parsed)
       IN  /\ repos' = parsed
           /\ orgPc' = [o \in owners |-> "fetching"]
           /\ orgRes' = [o \in owners |-> [projects |-> <<>>, err |-> ""]]
           /\ task' = [i \in idx |-> NewTask(parsed[i].owner, parsed[i].repo)]
           /\ reports' = [i \in idx |-> ZeroReport]
           /\ repoErrs' = [i \in idx |-> NoErr]
           /\ issued' = [projects |-> [o \in owners |-> 1],
                         list |-> [i \in idx |-> [op \in Ops |-> 1]],
                         reviews |-> [i \in idx |-> <<>>]]
           /\ writes' = [reports |-> [i \in idx |-> 0], errs |-> [i \in idx |-> 0],
                         review |-> [i \in idx |-> <<>>], map |-> [o \in owners |-> 0],
                         unlocked |-> 0, early |-> 0]
           /\ progress' = [progress EXCEPT !.totals = [i \in idx |-> <<>>],
                                           !.steps = [i \in idx |-> 0]]
    /\ pc' = "wait"
    /\ UNCHANGED << optsRepos, optsUser, cancelled, faults, cancelHit, mu, orgProjects, ret, asm >>

\* The caller cancels ctx, in a run over at most maxRepos repositories.
CancelWithin(maxRepos) ==
    /\ pc \in {"start", "wait"}
    /\ ~cancelled
    /\ Len(optsRepos) <= maxRepos
    /\ cancelled' = TRUE
    /\ cancelHit' =
          {"projects" : o \in {x \in DOMAIN orgPc : orgPc[x] = "fetching"}}
          \cup {"tier2" : i \in {x \in DOMAIN task :
                                   \E op \in Ops : task[x].st[op] = "inflight"}}
          \cup {"tier3" : i \in {x \in DOMAIN task :
                                   \E k \in DOMAIN task[x].revSt :
                                       task[x].revSt[k] = "inflight"}}
    /\ UNCHANGED << pc, optsRepos, optsUser, faults, repos, orgPc, orgRes, mu, orgProjects,
                    task, reports, repoErrs, ret, issued, writes, progress, asm >>

\* The caller cancels ctx.
Cancel == CancelWithin(MaxCancelRepos)

\* The outcomes a data-source call can have: it aborts with the context's
\* error once ctx is cancelled, and otherwise succeeds or fails.
Outcomes ==
    IF cancelled THEN {ErrCanceled}
    ELSE {""} \cup (IF faults < MaxFaults THEN {ErrTransport} ELSE {})

\* The transport failures injected once a call has returned e.
FaultsAfter(e) == IF e = ErrTransport THEN faults + 1 ELSE faults

\* ------------------------------------------------- the project goroutines

\* projects, err := client.ListProjects(ctx, owner) returns.
ProjectsReturn(o) ==
    /\ o \in DOMAIN orgPc
    /\ orgPc[o] = "fetching"
    /\ \E e \in Outcomes :
          /\ orgRes' = [orgRes EXCEPT ![o] =
                          [projects |-> IF e = "" THEN SourceProjects(o) ELSE <<>>,
                           err |-> e]]
          /\ faults' = FaultsAfter(e)
    /\ orgPc' = [orgPc EXCEPT ![o] = "returned"]
    /\ UNCHANGED << pc, optsRepos, optsUser, cancelled, cancelHit, repos, mu, orgProjects,
                    task, reports, repoErrs, ret, issued, writes, progress, asm >>

\* Mutant: the project goroutine goes on without taking the mutex.
OrgLockNoMutex(o) ==
    /\ o \in DOMAIN orgPc
    /\ orgPc[o] = "returned"
    /\ orgPc' = [orgPc EXCEPT ![o] = "locked"]
    /\ UNCHANGED << pc, optsRepos, optsUser, cancelled, faults, cancelHit, repos, orgRes, mu,
                    orgProjects, task, reports, repoErrs, ret, issued, writes, progress, asm >>

\* mu.Lock()
OrgLock(o) ==
    /\ o \in DOMAIN orgPc
    /\ orgPc[o] = "returned"
    /\ mu = {}
    /\ mu' = {o}
    /\ orgPc' = [orgPc EXCEPT ![o] = "locked"]
    /\ UNCHANGED << pc, optsRepos, optsUser, cancelled, faults, cancelHit, repos, orgRes,
                    orgProjects, task, reports, repoErrs, ret, issued, writes, progress, asm >>

\* The value the project goroutine stores: nil after a failure (and a warning
\* on stderr), the projects otherwise.
StoredProjects(res) == IF res.err # "" THEN <<>> ELSE res.projects

\* Mutant: a failed project fetch is treated as fatal for the repositories
\* of that owner.
OrgStoreFatal(o) ==
    /\ o \in DOMAIN orgPc
    /\ orgPc[o] = "locked"
    /\ orgProjects' = MapPut(orgProjects, o, StoredProjects(orgRes[o]))
    /\ repoErrs' = [i \in DOMAIN repoErrs |->
                       IF orgRes[o].err # "" /\ repos[i].owner = o
                       THEN <<"fetching projects", o, <<>>, 0, orgRes[o].err>>
                       ELSE repoErrs[i]]
    /\ writes' = [writes EXCEPT !.map[o] = @ + 1,
                                !.unlocked = IF mu = {o} THEN @ ELSE @ + 1]
    /\ mu' = mu \ {o}
    /\ orgPc' = [orgPc EXCEPT ![o] = "done"]
    /\ UNCHANGED << pc, optsRepos, optsUser, cancelled, faults, cancelHit, repos, orgRes, task,
                    reports, ret, issued, progress, asm >>

\* Mutant: the project goroutine returns without releasing the mutex.
OrgStoreNoUnlock(o) ==
    /\ o \in DOMAIN orgPc
    /\ orgPc[o] = "locked"
    /\ orgProjects' = MapPut(orgProjects, o, StoredProjects(orgRes[o]))
    /\ writes' = [writes EXCEPT !.map[o] = @ + 1,
                                !.unlocked = IF mu = {o} THEN @ ELSE @ + 1]
    /\ mu' = mu
    /\ orgPc' = [orgPc EXCEPT ![o] = "done"]
    /\ UNCHANGED << pc, optsRepos, optsUser, cancelled, faults, cancelHit, repos, orgRes, task,
                    reports, repoErrs, ret, issued, progress, asm >>

\* orgProjects[owner] = ..., then the deferred mu.Unlock() and wg.Done().
OrgStore(o) ==
    /\ o \in DOMAIN orgPc
    /\ orgPc[o] = "locked"
    /\ orgProjects' = MapPut(orgProjects, o, StoredProjects(orgRes[o]))
    /\ writes' = [writes EXCEPT !.map[o] = @ + 1,
                                !.unlocked = IF mu = {o} THEN @ ELSE @ + 1]
    /\ mu' = mu \ {o}
    /\ orgPc' = [orgPc EXCEPT ![o] = "done"]
    /\ UNCHANGED << pc, optsRepos, optsUser, cancelled, faults, cancelHit, repos, orgRes, task,
                    reports, repoErrs, ret, issued, progress, asm >>

\* ---------------------------------------------- the collectRepo goroutines

\* What a successful listing returns.
ListingResults(op) ==
    CASE op = "issues" -> {SourceIssues}
      [] op = "prs" -> {SourcePRListing(n) : n \in 0..MaxPRs}
      [] op = "comments" -> {SourceComments}
      [] OTHER -> {SourceReviewComments}

\* Mutant: a listing that failed is issued again.
ListReturnRetry(i, op) ==
    /\ i \in DOMAIN task
    /\ task[i].st[op] = "inflight"
    /\ \E e \in Outcomes :
          /\ IF e # ""
             THEN /\ task' = task
                  /\ issued' = [issued EXCEPT !.list[i][op] = @ + 1]
             ELSE /\ \E data \in ListingResults(op) :
                        task' = [task EXCEPT ![i].st[op] = "ok", ![i].raw[op] = data]
                  /\ issued' = issued
          /\ faults' = FaultsAfter(e)
    /\ progress' = Increment(progress, i)
    /\ UNCHANGED << pc, optsRepos, optsUser, cancelled, cancelHit, repos, orgPc, orgRes, mu,
                    orgProjects, reports, repoErrs, ret, writes, asm >>

\* One of the four listing goroutines of collectRepo: the call returns, its
\* result and error are stored in the goroutine's own pair of variables, and
\* the observer is told of the step.
ListReturn(i, op) ==
    /\ i \in DOMAIN task
    /\ task[i].st[op] = "inflight"
    /\ \E e \in Outcomes :
          /\ IF e # ""
             THEN task' = [task EXCEPT ![i].st[op] = "err", ![i].err[op] = e]
             ELSE \E data \in ListingResults(op) :
                     task' = [task EXCEPT ![i].st[op] = "ok", ![i].raw[op] = data]
          /\ faults' = FaultsAfter(e)
    /\ progress' = Increment(progress, i)
    /\ UNCHANGED << pc, optsRepos, optsUser, cancelled, cancelHit, repos, orgPc, orgRes, mu,
                    orgProjects, reports, repoErrs, ret, issued, writes, asm >>

\* Mutant: collectRepo goes on as soon as the pull-request list is known.
Tier2JoinedPRsOnly(i) == task[i].st["prs"] # "inflight"

\* wg.Wait() of collectRepo: the four listing goroutines are done.
Tier2Joined(i) == \A op \in Ops : task[i].st[op] # "inflight"

\* Mutant: the pull-request listing is checked before the issue listing.
FirstListErrPRsFirst(t) ==
    IF t.err["prs"] # ""
    THEN ErrListing("listing PRs", t.rr.Owner, t.rr.Repo, t.err["prs"])
    ELSE IF t.err["issues"] # ""
    THEN ErrListing("listing issues", t.rr.Owner, t.rr.Repo, t.err["issues"])
    ELSE IF t.err["comments"] # ""
    THEN ErrListing("listing issue comments", t.rr.Owner, t.rr.Repo, t.err["comments"])
    ELSE IF t.err["revcomments"] # ""
    THEN ErrListing("listing review comments", t.rr.Owner, t.rr.Repo, t.err["revcomments"])
    ELSE NoErr

\* The error checks after the tier-2 join, in their fixed order.
FirstListErr(t) ==
    IF t.err["issues"] # ""
    THEN ErrListing("listing issues", t.rr.Owner, t.rr.Repo, t.err["issues"])
    ELSE IF t.err["prs"] # ""
    THEN ErrListing("listing PRs", t.rr.Owner, t.rr.Repo, t.err["prs"])
    ELSE IF t.err["comments"] # ""
    THEN ErrListing("listing issue comments", t.rr.Owner, t.rr.Repo, t.err["comments"])
    ELSE IF t.err["revcomments"] # ""
    THEN ErrListing("listing review comments", t.rr.Owner, t.rr.Repo, t.err["revcomments"])
    ELSE NoErr

\* How often each pull-request number occurs in a list.
CountByNumber(prs) ==
    [n \in {prs[k].number : k \in 1..Len(prs)} |->
        Cardinality({k \in 1..Len(prs) : prs[k].number = n})]

\* Mutant: the review fetches are started only when an observer is present.
ReviewFanOutObserved(prs) == Len(prs) > 0 /\ progress.impl # "nil"

\* if len(rr.PullRequests) > 0: collectRepo starts the tier-3 fan-out.
ReviewFanOut(prs) == Len(prs) > 0

\* collectRepo from the tier-2 join to the tier-3 fan-out (or to its return
\* when a listing failed or no pull request is kept), and the goroutine of
\* Collect storing what it returned in its own slot; the observer is told
\* the new total before the fan-out.
RepoAssemble(i) ==
    /\ i \in DOMAIN task
    /\ task[i].pc = "tier2"
    /\ Tier2Joined(i)
    /\ LET t == task[i]
           e == FirstListErr(t)
           rr == Assemble(t.rr.Owner, t.rr.Repo, t.raw["issues"], t.raw["prs"],
                          t.raw["comments"], t.raw["revcomments"], optsUser, Since)
           n == Len(rr.PullRequests)
       IN  IF e # NoErr
           THEN /\ task' = [task EXCEPT ![i].pc = "done"]
                /\ repoErrs' = [repoErrs EXCEPT ![i] = e]
                /\ writes' = [writes EXCEPT !.errs[i] = @ + 1]
                /\ UNCHANGED << reports, issued, progress >>
           ELSE IF ~ReviewFanOut(rr.PullRequests)
           THEN /\ task' = [task EXCEPT ![i].pc = "done", ![i].rr = rr]
                /\ reports' = [reports EXCEPT ![i] = rr]
                /\ writes' = [writes EXCEPT !.reports[i] = @ + 1]
                /\ UNCHANGED << repoErrs, issued, progress >>
           ELSE /\ task' = [task EXCEPT ![i].pc = "tier3", ![i].rr = rr,
                                        ![i].revSt = [k \in 1..n |-> "inflight"],
                                        ![i].revRes = [k \in 1..n |-> <<>>],
                                        ![i].revErr = [k \in 1..n |-> ""]]
                /\ issued' = [issued EXCEPT !.reviews[i] = CountByNumber(rr.PullRequests)]
                /\ writes' = [writes EXCEPT !.review[i] = [k \in 1..n |-> 0]]
                /\ progress' = SetTotal(progress, i, 4 + n)
                /\ UNCHANGED << reports, repoErrs >>
    /\ UNCHANGED << pc, optsRepos, optsUser, cancelled, faults, cancelHit, repos, orgPc, orgRes, mu,
                    orgProjects, ret, asm >>

\* One review goroutine: reviewResults[idx], reviewErrs[idx] =
\* client.ListReviews(ctx, owner, repo, prNumber), and the observer is told
\* of the step.
ReviewReturn(i, k) ==
    /\ i \in DOMAIN task
    /\ k \in DOMAIN task[i].revSt
    /\ task[i].revSt[k] = "inflight"
    /\ \E e \in Outcomes :
          /\ task' = [task EXCEPT
                      ![i].revSt[k] = IF e = "" THEN "ok" ELSE "err",
                      ![i].revErr[k] = e,
                      ![i].revRes[k] =
                          IF e = "" THEN SourceReviews(task[i].rr.PullRequests[k].number)
                          ELSE <<>>]
          /\ faults' = FaultsAfter(e)
    /\ writes' = [writes EXCEPT !.review[i][k] = @ + 1]
    /\ progress' = Increment(progress, i)
    /\ UNCHANGED << pc, optsRepos, optsUser, cancelled, cancelHit, repos, orgPc, orgRes, mu,
                    orgProjects, reports, repoErrs, ret, issued, asm >>

\* reviewWg.Wait(): the review goroutines are done.
Tier3Joined(i) == \A k \in DOMAIN task[i].revSt : task[i].revSt[k] # "inflight"

\* Index of the first failed review fetch, 0 when none failed.
FirstReviewErr(t) ==
    IF \E k \in DOMAIN t.revErr : t.revErr[k] # ""
    THEN CHOOSE k \in DOMAIN t.revErr :
            t.revErr[k] # "" /\ \A j \in 1..(k - 1) : t.revErr[j] = ""
    ELSE 0

\* rr.Reviews after the loop that fills it: only non-empty review lists are
\* stored, under the pull request's number (a later entry overwrites).
ReviewsMap(prs, revRes) ==
    LET kept == {k \in 1..Len(prs) : Len(revRes[k]) > 0}
    IN  [n \in {prs[k].number : k \in kept} |->
            revRes[CHOOSE k \in kept :
                      prs[k].number = n /\ \A j \in kept : prs[j].number = n => j <= k]]

\* collectRepo from the tier-3 join to its return, and the goroutine of
\* Collect storing what it returned in its own slot.
RepoFinish(i) ==
    /\ i \in DOMAIN task
    /\ task[i].pc = "tier3"
    /\ Tier3Joined(i)
    /\ LET t == task[i]
           k == FirstReviewErr(t)
           rr == [t.rr EXCEPT !.Reviews = ReviewsMap(t.rr.PullRequests, t.revRes)]
           early == IF \E j \in DOMAIN t.revSt : t.revSt[j] = "inflight" THEN 1 ELSE 0
       IN  IF k # 0
           THEN /\ task' = [task EXCEPT ![i].pc = "done"]
                /\ repoErrs' = [repoErrs EXCEPT ![i] =
                       ErrReviews(t.rr.Owner, t.rr.Repo, t.rr.PullRequests[k].number,
                                  t.revErr[k])]
                /\ writes' = [writes EXCEPT !.errs[i] = @ + 1, !.early = @ + early]
                /\ UNCHANGED reports
           ELSE /\ task' = [task EXCEPT ![i].pc = "done", ![i].rr = rr]
                /\ reports' = [reports EXCEPT ![i] = rr]
                /\ writes' = [writes EXCEPT !.reports[i] = @ + 1, !.early = @ + early]
                /\ UNCHANGED repoErrs
    /\ UNCHANGED << pc, optsRepos, optsUser, cancelled, faults, cancelHit, repos, orgPc, orgRes, mu,
                    orgProjects, ret, issued, progress, asm >>

\* ------------------------------------------------------- Collect's return

\* Mutant: Collect waits for the collectRepo goroutines only.
AllJoinedReposOnly == \A i \in DOMAIN task : task[i].pc = "done"

\* wg.Wait() of Collect: every project goroutine and every collectRepo
\* goroutine is done.
AllJoined ==
    /\ \A o \in DOMAIN orgPc : orgPc[o] = "done"
    /\ \A i \in DOMAIN task : task[i].pc = "done"

\* Mutant: only the first repository's error is looked at.
FirstRepoErrHeadOnly(errs) == IF Len(errs) > 0 /\ errs[1] # NoErr THEN 1 ELSE 0

\* Mutant: the last non-nil entry of repoErrs is returned.
FirstRepoErrLast(errs) ==
    IF \E i \in DOMAIN errs : errs[i] # NoErr
    THEN CHOOSE i \in DOMAIN errs : errs[i] # NoErr /\ \A j \in (i + 1)..Len(errs) : errs[j] = NoErr
    ELSE 0

\* Index of the first non-nil entry of repoErrs, 0 when all are nil.
FirstRepoErr(errs) ==
    IF \E i \in DOMAIN errs : errs[i] # NoErr
    THEN CHOOSE i \in DOMAIN errs : errs[i] # NoErr /\ \A j \in 1..(i - 1) : errs[j] = NoErr
    ELSE 0

\* reports[i].Projects = orgProjects[reports[i].Owner]
Associate(reps, projects) ==
    [i \in DOMAIN reps |-> [reps[i] EXCEPT !.Projects = MapGet(projects, reps[i].Owner)]]

\* Collect from wg.Wait() to its return.
CollectReturn ==
    /\ pc = "wait"
    /\ AllJoined
    /\ LET i == FirstRepoErr(repoErrs)
           early == IF \/ \E o \in DOMAIN orgPc : orgPc[o] # "done"
                       \/ \E j \in DOMAIN task : task[j].pc # "done"
                    THEN 1 ELSE 0
       IN  /\ IF i # 0
              THEN /\ ret' = [isNil |-> TRUE, reports |-> <<>>, err |-> repoErrs[i],
                              returns |-> ret.returns + 1]
                   /\ UNCHANGED reports
              ELSE /\ reports' = Associate(reports, orgProjects)
                   /\ ret' = [isNil |-> FALSE, reports |-> reports', err |-> NoErr,
                              returns |-> ret.returns + 1]
           /\ writes' = [writes EXCEPT !.early = @ + early]
    /\ pc' = "done"
    /\ UNCHANGED << optsRepos, optsUser, cancelled, faults, cancelHit, repos, orgPc, orgRes, mu,
                    orgProjects, task, repoErrs, issued, progress, asm >>

Next ==
    \/ CollectInvalid
    \/ CollectSpawn
    \/ Cancel
    \/ \E o \in DOMAIN orgPc : ProjectsReturn(o)
    \/ \E o \in DOMAIN orgPc : OrgLock(o)
    \/ \E o \in DOMAIN orgPc : OrgStore(o)
    \/ \E i \in DOMAIN task : \E op \in Ops : ListReturn(i, op)
    \/ \E i \in DOMAIN task : RepoAssemble(i)
    \/ \E i \in DOMAIN task : \E k \in DOMAIN task[i].revSt : ReviewReturn(i, k)
    \/ \E i \in DOMAIN task : RepoFinish(i)
    \/ CollectReturn

Spec == Init /\ [][Next]_vars

\* ------------------------------------------- Collect under every observer

MaxObservedRepos == 1

\* Collect is called with a list of at most MaxObservedRepos repositories
\* and any of the observers.
InitObserver ==
    CollectCalled({l \in RepoLists : Len(l) <= MaxObservedRepos}, Observers)

SpecObserver == InitObserver /\ [][Next]_vars

\* ------------------------------------------- the assembly on drawn listings

\* What client.ListPullRequests can hand to collectRepo: at most n pull
\* requests, newest update first, and nothing updated before the cutoff.
PRListings(n) ==
    { l \in Listings(PullRequests, n) :
        /\ \A k \in 1..Len(l) : l[k].updatedAt >= Since
        /\ \A k \in 1..(Len(l) - 1) : l[k].updatedAt >= l[k + 1].updatedAt }

UserFilters == {NoUser, "alice"}

\* One input of SpecAssemble.
AsmInput(u, is, prs, cs, rcs) ==
    [phase |-> "in", user |-> u, rawIssues |-> is, rawPRs |-> prs,
     rawComments |-> cs, rawRevComments |-> rcs, rr |-> ZeroReport]

\* The inputs of SpecAssemble: one of the four raw listings is drawn from
\* all its listings of at most n records, the other three are those of the
\* explored data source.
AsmInputs(n) ==
    LET prs0 == SourcePRListing(Min(n, 1))
    IN  UNION {
          {AsmInput(u, SourceIssues, prs, SourceComments, SourceReviewComments) :
              prs \in PRListings(n)}
          \cup
          {AsmInput(u, is, prs0, SourceComments, SourceReviewComments) :
              is \in Listings(Issues, n)}
          \cup
          {AsmInput(u, SourceIssues, prs0, cs, SourceReviewComments) :
              cs \in Listings(CommentPool, n)}
          \cup
          {AsmInput(u, SourceIssues, prs0, SourceComments, rcs) :
              rcs \in Listings(CommentPool, n)}
          : u \in UserFilters }

InitAssemble ==
    /\ pc = "off"
    /\ optsRepos = <<>>
    /\ optsUser = NoUser
    /\ cancelled = FALSE
    /\ faults = 0
    /\ cancelHit = {}
    /\ repos = <<>>
    /\ orgPc = <<>>
    /\ orgRes = <<>>
    /\ mu = {}
    /\ orgProjects = <<>>
    /\ task = <<>>
    /\ reports = <<>>
    /\ repoErrs = <<>>
    /\ ret = NotReturned
    /\ issued = [projects |-> <<>>, list |-> <<>>, reviews |-> <<>>]
    /\ writes = [reports |-> <<>>, errs |-> <<>>, review |-> <<>>, map |-> <<>>,
                 unlocked |-> 0, early |-> 0]
    /\ progress = NewProgress("nil")
    /\ asm \in AsmInputs(MaxRaw)

\* collectRepo of repository a/x whose four listings succeeded, from the
\* tier-2 join to the aggregate's lists.
AssembleStep ==
    /\ asm.phase = "in"
    /\ asm' = [asm EXCEPT
                  !.phase = "out",
                  !.rr = Assemble(<<"a">>, <<"x">>, asm.rawIssues, asm.rawPRs,
                                  asm.rawComments, asm.rawRevComments, asm.user, Since)]
    /\ UNCHANGED collectVars

NextAssemble == AssembleStep

SpecAssemble == InitAssemble /\ [][NextAssemble]_vars

\* =================================================================== claims

\* An identifier of owner/name shape: it has a separator to split at.
HasSeparator(s) == \E k \in 1..Len(s) : s[k] = "/"

WellFormedList == \A k \in 1..Len(optsRepos) : HasSeparator(optsRepos[k])

\* The text before the first separator of an identifier.
OwnerPart(s) ==
    SubSeq(s, 1, (CHOOSE k \in 1..Len(s) : s[k] = "/" /\ \A j \in 1..(k - 1) : s[j] # "/") - 1)

\* owner/name of an aggregate or of an error's context.
FullName(owner, repo) == owner \o <<"/">> \o repo

ListFailed(i) == \E op \in Ops : task[i].st[op] = "err"

ReviewFailed(i) == \E k \in DOMAIN task[i].revSt : task[i].revSt[k] = "err"

\* A required retrieval (a tier-2 listing or a tier-3 review fetch) failed.
RetrievalFailed == \E i \in DOMAIN task : ListFailed(i) \/ ReviewFailed(i)

\* The causes of the failed retrievals of entry i.
FailureCauses(i) ==
    {task[i].err[op] : op \in {o \in Ops : task[i].st[o] = "err"}}
    \cup {task[i].revErr[k] : k \in {j \in DOMAIN task[i].revSt : task[i].revSt[j] = "err"}}

RepoQuiet(i) ==
    /\ task[i].pc = "done"
    /\ \A op \in Ops : task[i].st[op] # "inflight"
    /\ \A k \in DOMAIN task[i].revSt : task[i].revSt[k] # "inflight"

\* Every task Collect started has finished.
NothingInFlight ==
    /\ \A o \in DOMAIN orgPc : orgPc[o] = "done"
    /\ \A i \in DOMAIN task : RepoQuiet(i)

\* C1: Collect is all-or-nothing.  It never returns both aggregates and an
\* error.  Once it has returned from a run over a well-formed list, every
\* task it started has joined; if a required retrieval failed for any
\* repository it has returned nil and one error, wrapping the cause of a
\* failed retrieval with that repository's name; otherwise it has returned
\* a nil error and one aggregate per entry of the list.
C1_AllOrNothing ==
    /\ ~(~ret.isNil /\ ret.err # NoErr)
    /\ (pc = "done" /\ WellFormedList) =>
          /\ NothingInFlight
          /\ IF RetrievalFailed
             THEN /\ ret.isNil
                  /\ ret.reports = <<>>
                  /\ ret.err # NoErr
                  /\ \E i \in DOMAIN task :
                        /\ FullName(ret.err[2], ret.err[3]) = optsRepos[i]
                        /\ Cause(ret.err) \in FailureCauses(i)
             ELSE /\ ~ret.isNil
                  /\ ret.err = NoErr
                  /\ Len(ret.reports) = Len(optsRepos)
                  /\ \A i \in 1..Len(optsRepos) :
                        FullName(ret.reports[i].Owner, ret.reports[i].Repo) = optsRepos[i]

\* C1 witness: two repositories; in one the comment listing alone failed,
\* the other's aggregate was stored; Collect returned nil and the error.
C1_Witness ==
    /\ pc = "done"
    /\ Len(optsRepos) = 2
    /\ ret.isNil
    /\ ret.err # NoErr
    /\ \E i, j \in DOMAIN task :
          /\ i # j
          /\ task[i].st["comments"] = "err"
          /\ \A op \in Ops \ {"comments"} : task[i].st[op] = "ok"
          /\ writes.reports[j] = 1

\* C2: in every repository no review fetch is started before the four
\* listings have completed, and no aggregate is handed back (stored in the
\* repository's slot) while a listing or a review fetch it started is still
\* in flight.
C2_TierBarriers ==
    \A i \in DOMAIN task :
        /\ DOMAIN task[i].revSt # {} => \A op \in Ops : task[i].st[op] # "inflight"
        /\ writes.reports[i] > 0 =>
              /\ \A op \in Ops : task[i].st[op] # "inflight"
              /\ \A k \in DOMAIN task[i].revSt : task[i].revSt[k] # "inflight"

\* C2 witness: a repository whose review fetches are under way, one back
\* and one still in flight, and whose aggregate is not stored yet.
C2_Witness ==
    \E i \in DOMAIN task :
        /\ task[i].pc = "tier3"
        /\ \E k, m \in DOMAIN task[i].revSt :
              task[i].revSt[k] = "ok" /\ task[i].revSt[m] = "inflight"
        /\ writes.reports[i] = 0

\* C3: a failed project fetch is never propagated.  When no required
\* retrieval failed, Collect returns success, the aggregates of an owner
\* whose project fetch failed carry no projects, and the aggregates of the
\* other owners carry the projects fetched for them.
C3_ProjectFailureNotFatal ==
    (pc = "done" /\ WellFormedList /\ ~RetrievalFailed) =>
        /\ ~ret.isNil
        /\ ret.err = NoErr
        /\ \A i \in DOMAIN ret.reports :
              LET o == OwnerPart(optsRepos[i])
              IN  ret.reports[i].Projects =
                      IF orgRes[o].err # "" THEN <<>> ELSE SourceProjects(o)

\* C3 witness: two owners, the project fetch of one failed and that of the
\* other succeeded; Collect returned the aggregates.
C3_Witness ==
    /\ pc = "done"
    /\ ~ret.isNil
    /\ \E i, j \in DOMAIN ret.reports :
          /\ orgRes[ret.reports[i].Owner].err # ""
          /\ ret.reports[i].Projects = <<>>
          /\ orgRes[ret.reports[j].Owner].err = ""
          /\ ret.reports[j].Projects # <<>>

\* C4: when an entry of the list has no owner/name shape, Collect goes from
\* its start straight to its return, with an error naming a malformed entry
\* and no aggregates, and no data-source operation is ever issued and no
\* task started, also not for well-formed entries before the malformed one.
C4_MalformedFailsBeforeIO ==
    ~WellFormedList =>
        /\ pc \in {"start", "done"}
        /\ issued = [projects |-> <<>>, list |-> <<>>, reviews |-> <<>>]
        /\ orgPc = <<>>
        /\ task = <<>>
        /\ pc = "done" =>
              /\ ret.isNil
              /\ ret.reports = <<>>
              /\ ret.err # NoErr
              /\ ret.err[1] = "invalid repo format"
              /\ \E k \in 1..Len(optsRepos) :
                    ~HasSeparator(optsRepos[k]) /\ ret.err[2] = optsRepos[k]

\* C4 witness: a well-formed entry followed by a malformed one; Collect has
\* returned.
C4_Witness ==
    /\ pc = "done"
    /\ Len(optsRepos) = 2
    /\ HasSeparator(optsRepos[1])
    /\ ~HasSeparator(optsRepos[2])
    /\ ret.err # NoErr

\* C5: when ctx is cancelled while a retrieval (a tier-2 listing, a tier-3
\* review fetch or a project fetch) is in flight, Collect returns no
\* aggregates and its error is the cancellation.  Stated for runs in which
\* the cancellation is the only failure (no retrieval failed on its own).
C5_CancellationPropagates ==
    (pc = "done" /\ cancelHit # {} /\ faults = 0) =>
        /\ ret.isNil
        /\ Cause(ret.err) = ErrCanceled

\* C6: every slot of reports, of repoErrs and of the review slices is
\* written at most once, by the task of that index (a filled slot holds what
\* that index's own call returned); every write of orgProjects is made by
\* the holder of mu, each key once, and at most one task is past mu.Lock();
\* nothing is read from these structures before the join that guards it.
C6_IndexOwnedWrites ==
    /\ \A i \in DOMAIN writes.reports : writes.reports[i] <= 1
    /\ \A i \in DOMAIN writes.errs : writes.errs[i] <= 1
    /\ \A i \in DOMAIN writes.review :
          \A k \in DOMAIN writes.review[i] : writes.review[i][k] <= 1
    /\ \A i \in DOMAIN task :
          /\ writes.reports[i] = 1 =>
                FullName(reports[i].Owner, reports[i].Repo) = optsRepos[i]
          /\ \A k \in DOMAIN task[i].revSt :
                /\ task[i].revSt[k] = "inflight" => writes.review[i][k] = 0
                /\ task[i].revSt[k] = "ok" =>
                      task[i].revRes[k] = SourceReviews(task[i].rr.PullRequests[k].number)
    /\ \A o \in DOMAIN writes.map : writes.map[o] <= 1
    /\ writes.unlocked = 0
    /\ Cardinality({o \in DOMAIN orgPc : orgPc[o] = "locked"}) <= 1
    /\ writes.early = 0

\* C6 witness: Collect has returned; two owners' project lists were stored
\* and a repository with two review fetches filled both its slots.
C6_Witness ==
    /\ pc = "done"
    /\ Cardinality({o \in DOMAIN writes.map : writes.map[o] = 1}) = 2
    /\ \E i \in DOMAIN writes.review :
          /\ Len(writes.review[i]) >= 2
          /\ \A k \in DOMAIN writes.review[i] : writes.review[i][k] = 1
    /\ \E i \in DOMAIN writes.reports : writes.reports[i] = 1

\* C7: no retrieval is retried.  No operation is ever issued twice; once
\* Collect has returned from a run over a well-formed list, the project
\* fetch was issued exactly once for each distinct owner of the list, each
\* of the four listings exactly once for each entry, and review fetches
\* only for pull requests kept in that entry's aggregate.
C7_NoRetries ==
    /\ \A o \in DOMAIN issued.projects : issued.projects[o] <= 1
    /\ \A i \in DOMAIN issued.list : \A op \in Ops : issued.list[i][op] <= 1
    /\ \A i \in DOMAIN issued.reviews :
          \A n \in DOMAIN issued.reviews[i] : issued.reviews[i][n] <= 1
    /\ (pc = "done" /\ WellFormedList) =>
          /\ DOMAIN issued.projects = {OwnerPart(optsRepos[k]) : k \in 1..Len(optsRepos)}
          /\ \A o \in DOMAIN issued.projects : issued.projects[o] = 1
          /\ DOMAIN issued.list = 1..Len(optsRepos)
          /\ \A i \in DOMAIN issued.list : \A op \in Ops : issued.list[i][op] = 1
          /\ \A i \in DOMAIN issued.reviews :
                DOMAIN issued.reviews[i] \subseteq
                    {task[i].rr.PullRequests[k].number :
                        k \in 1..Len(task[i].rr.PullRequests)}

\* C7 witness: two repositories of one owner, a listing failed, Collect
\* has returned, and the owner's projects were fetched once.
C7_Witness ==
    /\ pc = "done"
    /\ Len(optsRepos) = 2
    /\ optsRepos[1] # optsRepos[2]
    /\ OwnersOf(repos) = {<<"a">>}
    /\ issued.projects[<<"a">>] = 1
    /\ \E i \in DOMAIN task : ListFailed(i)

\* C8: no aggregate carries projects before Collect has passed its join;
\* in a successful result every task had finished and each aggregate's
\* project list is the one stored for its owner, so aggregates of one owner
\* carry the same list.
C8_ProjectsAfterJoin ==
    /\ pc # "done" => \A i \in DOMAIN reports : reports[i].Projects = <<>>
    /\ (pc = "done" /\ ~ret.isNil) =>
          /\ NothingInFlight
          /\ \A i \in DOMAIN ret.reports :
                /\ OwnerPart(optsRepos[i]) \in DOMAIN orgProjects
                /\ ret.reports[i].Projects = orgProjects[OwnerPart(optsRepos[i])]
          /\ \A i, j \in DOMAIN ret.reports :
                OwnerPart(optsRepos[i]) = OwnerPart(optsRepos[j]) =>
                    ret.reports[i].Projects = ret.reports[j].Projects

\* C8 witness: a successful result over two different repositories of one
\* owner, both carrying the owner's fetched projects.
C8_Witness ==
    /\ pc = "done"
    /\ ~ret.isNil
    /\ Len(ret.reports) = 2
    /\ ret.reports[1].Repo # ret.reports[2].Repo
    /\ ret.reports[1].Owner = ret.reports[2].Owner
    /\ ret.reports[1].Projects # <<>>
    /\ ret.reports[1].Projects = ret.reports[2].Projects

\* out is the records of raw that satisfy Keep, in raw's order.
InOrderSelection(out, raw, Keep(_)) ==
    LET idx == {j \in 1..Len(raw) : Keep(raw[j])}
    IN  /\ Len(out) = Cardinality(idx)
        /\ \A j \in idx : out[Cardinality({k \in idx : k <= j})] = raw[j]

AuthoredByFiltered(rec) == asm.user = NoUser \/ rec.user = asm.user

\* Pull-request activity-since: open, or created, merged or closed at or
\* after the cutoff.
ActiveSinceCutoff(pr) ==
    \/ pr.state = "open"
    \/ \E t \in {pr.createdAt, pr.mergedAt, pr.closedAt} : t # NilTime /\ t >= Now - LookbackDays

StalePR(pr) ==
    /\ pr.state # "open"
    /\ \A t \in {pr.createdAt, pr.mergedAt, pr.closedAt} : t = NilTime \/ t < Now - LookbackDays

InSeq(x, seq) == \E j \in 1..Len(seq) : seq[j] = x

\* C9: the aggregate's pull requests are exactly the raw pull requests, in
\* their order, authored by the filtered user (if one is set) and active
\* since the lookback cutoff; a closed or merged pull request created,
\* merged and closed before the cutoff is never kept, whatever its updatedAt.
C9_KeptPullRequests ==
    asm.phase = "out" =>
        /\ InOrderSelection(asm.rr.PullRequests, asm.rawPRs,
                            LAMBDA pr : AuthoredByFiltered(pr) /\ ActiveSinceCutoff(pr))
        /\ \A j \in 1..Len(asm.rr.PullRequests) : ~StalePR(asm.rr.PullRequests[j])

\* C9 witness: with a user filter set, a stale closed pull request of that
\* user updated today was listed and dropped while another one was kept.
C9_Witness ==
    /\ asm.phase = "out"
    /\ asm.user = "alice"
    /\ \E j \in 1..Len(asm.rawPRs) :
          /\ StalePR(asm.rawPRs[j])
          /\ asm.rawPRs[j].user = "alice"
          /\ asm.rawPRs[j].updatedAt = Now
          /\ ~InSeq(asm.rawPRs[j], asm.rr.PullRequests)
    /\ Len(asm.rr.PullRequests) >= 1

\* C10: assembly drops every record of the issues listing that is a pull
\* request; with a user filter only that user's issues, issue comments and
\* review comments are kept, without one all are; issues are not pruned by
\* activity, so a listed closed issue with old times stays.
C10_KeptIssuesAndComments ==
    asm.phase = "out" =>
        /\ InOrderSelection(asm.rr.Issues, asm.rawIssues,
                            LAMBDA issue : ~issue.isPR /\ AuthoredByFiltered(issue))
        /\ InOrderSelection(asm.rr.IssueComments, asm.rawComments, AuthoredByFiltered)
        /\ InOrderSelection(asm.rr.ReviewComments, asm.rawRevComments, AuthoredByFiltered)
        /\ \A j \in 1..Len(asm.rr.Issues) : ~asm.rr.Issues[j].isPR

\* C10 witness: with a user filter set, the issues listing held a pull
\* request record, which was dropped, and a closed issue of that user
\* created and closed before the cutoff, which was kept.
C10_Witness ==
    /\ asm.phase = "out"
    /\ asm.user = "alice"
    /\ \E j \in 1..Len(asm.rawIssues) : asm.rawIssues[j].isPR
    /\ \E j \in 1..Len(asm.rr.Issues) :
          /\ asm.rr.Issues[j].state = "closed"
          /\ asm.rr.Issues[j].createdAt < Now - LookbackDays
          /\ asm.rr.Issues[j].closedAt # NilTime
          /\ asm.rr.Issues[j].closedAt < Now - LookbackDays
    /\ Len(asm.rr.Issues) < Len(asm.rawIssues)

\* ------------------------------------------- the two activity-since predicates

\* Mutant: prWorkedSince without its MergedAt check.
prWorkedSinceNoMerge(pr, since) ==
    IF pr.state = "open" THEN TRUE
    ELSE IF ~Before(pr.createdAt, since) THEN TRUE
    ELSE IF pr.closedAt # NilTime /\ ~Before(pr.closedAt, since) THEN TRUE
    ELSE FALSE

\* prWorkedSince(pr, since)
prWorkedSince(pr, since) ==
    IF pr.state = "open" THEN TRUE
    ELSE IF ~Before(pr.createdAt, since) THEN TRUE
    ELSE IF pr.mergedAt # NilTime /\ ~Before(pr.mergedAt, since) THEN TRUE
    ELSE IF pr.closedAt # NilTime /\ ~Before(pr.closedAt, since) THEN TRUE
    ELSE FALSE

\* Every value the fields read by the two predicates can take: any state,
\* any combination of present and absent lifecycle times.
ActivityPRs ==
    [state : {"open", "closed"}, createdAt : Times,
     mergedAt : Times \cup {NilTime}, closedAt : Times \cup {NilTime}]

\* The cutoffs explored: before, among and after the records' instants.
ActivityCutoffs == (Now - 3)..(Now + 1)

\* Collect is not running.
CollectIdle ==
    /\ pc = "off"
    /\ optsRepos = <<>>
    /\ optsUser = NoUser
    /\ cancelled = FALSE
    /\ faults = 0
    /\ cancelHit = {}
    /\ repos = <<>>
    /\ orgPc = <<>>
    /\ orgRes = <<>>
    /\ mu = {}
    /\ orgProjects = <<>>
    /\ task = <<>>
    /\ reports = <<>>
    /\ repoErrs = <<>>
    /\ ret = NotReturned
    /\ issued = [projects |-> <<>>, list |-> <<>>, reviews |-> <<>>]
    /\ writes = [reports |-> <<>>, errs |-> <<>>, review |-> <<>>, map |-> <<>>,
                 unlocked |-> 0, early |-> 0]
    /\ progress = NewProgress("nil")

\* One pull request, a cutoff and an earlier (or equal) cutoff.
InitActivity ==
    /\ CollectIdle
    /\ asm \in { [phase |-> "in", pr |-> pr, since |-> c[1], earlier |-> c[2],
                  fetch |-> FALSE, fetchEarlier |-> FALSE,
                  synth |-> FALSE, synthEarlier |-> FALSE] :
                    pr \in ActivityPRs,
                    c \in {d \in ActivityCutoffs \X ActivityCutoffs : d[2] <= d[1]} }

\* The Fetcher's call prHasActivitySince(pr, since) of collectRepo and the
\* Synthesizer's call prWorkedSince(pr, today) of extractWorkItems, each at
\* both cutoffs.
ActivityStep ==
    /\ asm.phase = "in"
    /\ asm' = [asm EXCEPT
                  !.phase = "out",
                  !.fetch = prHasActivitySince(asm.pr, asm.since),
                  !.fetchEarlier = prHasActivitySince(asm.pr, asm.earlier),
                  !.synth = prWorkedSince(asm.pr, asm.since),
                  !.synthEarlier = prWorkedSince(asm.pr, asm.earlier)]
    /\ UNCHANGED collectVars

NextActivity == ActivityStep

SpecActivity == InitActivity /\ [][NextActivity]_vars

\* Pull-request activity-since(T) as the specification words it.
ActivitySince(pr, T) ==
    IF pr.state = "open" THEN TRUE
    ELSE \/ pr.createdAt >= T
         \/ pr.mergedAt # NilTime /\ pr.mergedAt >= T
         \/ pr.closedAt # NilTime /\ pr.closedAt >= T

\* C11: for every pull request and cutoff T, activity-since(T) is true when
\* the state is open, otherwise true exactly when createdAt >= T, or mergedAt
\* is present and >= T, or closedAt is present and >= T; a timestamp equal to
\* T counts.  Both prHasActivitySince and prWorkedSince compute it.
C11_ActivitySinceDefinition ==
    asm.phase = "out" =>
        /\ asm.fetch = ActivitySince(asm.pr, asm.since)
        /\ asm.synth = ActivitySince(asm.pr, asm.since)
        /\ asm.pr.state = "open" => asm.fetch /\ asm.synth

\* C11 witness: a closed pull request whose only timestamp not before the
\* cutoff is its merge time, equal to the cutoff, was found active.
C11_Witness ==
    /\ asm.phase = "out"
    /\ asm.pr.state = "closed"
    /\ asm.pr.mergedAt = asm.since
    /\ asm.pr.createdAt < asm.since
    /\ asm.pr.closedAt = NilTime
    /\ asm.fetch
    /\ asm.synth

\* C12: activity-since is monotonic in the cutoff: true at T implies true
\* at every earlier T'.
C12_ActivitySinceMonotonic ==
    asm.phase = "out" =>
        /\ asm.fetch => asm.fetchEarlier
        /\ asm.synth => asm.synthEarlier

\* C12 witness: a closed pull request inactive at the cutoff and active at a
\* strictly earlier one.
C12_Witness ==
    /\ asm.phase = "out"
    /\ asm.pr.state = "closed"
    /\ asm.earlier < asm.since
    /\ ~asm.fetch
    /\ asm.fetchEarlier
    /\ asm.synthEarlier

\* C13: the Fetcher's predicate prHasActivitySince and the Synthesizer's
\* predicate prWorkedSince return the same value for every pull request and
\* every cutoff.
C13_PredicatesAgree ==
    asm.phase = "out" =>
        /\ asm.fetch = asm.synth
        /\ asm.fetchEarlier = asm.synthEarlier

\* C13 witness: a merged pull request whose merge time alone is at or after
\* the cutoff, which both predicates call active.
C13_Witness ==
    /\ asm.phase = "out"
    /\ asm.pr.state = "closed"
    /\ asm.pr.mergedAt # NilTime
    /\ asm.pr.mergedAt >= asm.since
    /\ asm.pr.createdAt < asm.since
    /\ asm.pr.closedAt # NilTime
    /\ asm.pr.closedAt < asm.since
    /\ asm.fetch
    /\ asm.synth

\* ------------------------------------------------------ iteration classifier

\* The bound on the length of an iteration list.
MaxIters == 3

\* Instants are counted in ticks of eight hours since 2023-12-31T00:00Z;
\* DayTicks of them make a day (time.Date truncates an instant to its day).
DayTicks == 3

\* The dates of the explored calendar in the layout "2006-01-02"; the k-th
\* is k days after 2023-12-31.
Calendar == << "2024-01-01", "2024-01-02", "2024-01-03", "2024-01-04", "2024-01-05" >>

\* StartDate values that time.Parse("2006-01-02", ...) rejects.
UnparsableDates == {"", "01/03/2024"}

\* time.Parse("2006-01-02", s): the instant of 00:00 UTC of the date, or an
\* error.
ParseDate(s) ==
    IF \E k \in DOMAIN Calendar : Calendar[k] = s
    THEN [err |-> FALSE,
          t |-> DayTicks * (CHOOSE k \in DOMAIN Calendar : Calendar[k] = s)]
    ELSE [err |-> TRUE, t |-> 0]

\* start.AddDate(0, 0, days)
AddDays(t, days) == t + DayTicks * days

\* now.Location(): the offset of local time from UTC, in ticks (UTC-8, UTC,
\* UTC+8).
Zones == {-1, 0, 1}

\* Mutant: the reference instant itself instead of its day's midnight.
TodayOfInstant(now, zone) == now

\* time.Date(now.Year(), now.Month(), now.Day(), 0, 0, 0, 0, now.Location()):
\* the instant of local midnight of now's local day.
TodayOf(now, zone) == ((now + zone) \div DayTicks) * DayTicks - zone

\* ProjectIteration
Iterations(n) ==
    [Title : {n}, StartDate : {Calendar[k] : k \in DOMAIN Calendar} \cup UnparsableDates,
     Duration : 1..2]

NilIter == 0

\* ClassifyIteration(iter, now)
ClassifyIteration(iter, now, zone) ==
    LET parsed == ParseDate(iter.StartDate)
        start == parsed.t
        end == AddDays(start, iter.Duration)
        today == TodayOf(now, zone)
    IN  IF parsed.err THEN "previous"
        ELSE IF Before(today, start) THEN "next"
        ELSE IF ~Before(today, end) THEN "previous"
        ELSE "current"

\* Mutant: the first iteration found current is kept.
FindStepFirstCurrent(result, iterations, i, today) ==
    LET iter == iterations[i]
        parsed == ParseDate(iter.StartDate)
        start == parsed.t
        end == AddDays(start, iter.Duration)
    IN  IF parsed.err THEN result
        ELSE IF Before(today, start)
        THEN IF result.Next = NilIter THEN [result EXCEPT !.Next = i]
             ELSE LET nextStart == ParseDate(iterations[result.Next].StartDate).t
                  IN  IF Before(start, nextStart) THEN [result EXCEPT !.Next = i]
                      ELSE result
        ELSE IF ~Before(today, end)
        THEN IF result.Previous = NilIter THEN [result EXCEPT !.Previous = i]
             ELSE LET prev == iterations[result.Previous]
                      prevEnd == AddDays(ParseDate(prev.StartDate).t, prev.Duration)
                  IN  IF Before(prevEnd, end) THEN [result EXCEPT !.Previous = i]
                      ELSE result
        ELSE IF result.Current = NilIter THEN [result EXCEPT !.Current = i]
        ELSE result

\* One round of the loop of FindRelevantIterations, for iterations[i];
\* result holds the indexes its three pointers refer to (NilIter: nil).
FindStep(result, iterations, i, today) ==
    LET iter == iterations[i]
        parsed == ParseDate(iter.StartDate)
        start == parsed.t
        end == AddDays(start, iter.Duration)
    IN  IF parsed.err THEN result
        ELSE IF Before(today, start)
        THEN IF result.Next = NilIter THEN [result EXCEPT !.Next = i]
             ELSE LET nextStart == ParseDate(iterations[result.Next].StartDate).t
                  IN  IF Before(start, nextStart) THEN [result EXCEPT !.Next = i]
                      ELSE result
        ELSE IF ~Before(today, end)
        THEN IF result.Previous = NilIter THEN [result EXCEPT !.Previous = i]
             ELSE LET prev == iterations[result.Previous]
                      prevEnd == AddDays(ParseDate(prev.StartDate).t, prev.Duration)
                  IN  IF Before(prevEnd, end) THEN [result EXCEPT !.Previous = i]
                      ELSE result
        ELSE [result EXCEPT !.Current = i]

\* The loop of FindRelevantIterations up to and including index i.
RECURSIVE FindLoop(_, _, _)
FindLoop(iterations, i, today) ==
    IF i = 0 THEN [Previous |-> NilIter, Current |-> NilIter, Next |-> NilIter]
    ELSE FindStep(FindLoop(iterations, i - 1, today), iterations, i, today)

\* FindRelevantIterations(iterations, now)
FindRelevantIterations(iterations, now, zone) ==
    FindLoop(iterations, Len(iterations), TodayOf(now, zone))

\* The reference instants explored: 00:00, 08:00 and 16:00 UTC of 2024-01-03.
IterNows == {3 * DayTicks + h : h \in 0..(DayTicks - 1)}

IterInputs(n) ==
    { [phase |-> "in", iterations |-> l, now |-> t, zone |-> z,
       result |-> [Previous |-> NilIter, Current |-> NilIter, Next |-> NilIter],
       classes |-> <<>>] :
        l \in Listings(Iterations, n), t \in IterNows, z \in Zones }

InitIterations ==
    /\ CollectIdle
    /\ asm \in IterInputs(MaxIters)

\* FindRelevantIterations over the list, and ClassifyIteration of each of
\* its iterations, at the same reference instant.
IterationsStep ==
    /\ asm.phase = "in"
    /\ asm' = [asm EXCEPT
                  !.phase = "out",
                  !.result = FindRelevantIterations(asm.iterations, asm.now, asm.zone),
                  !.classes = [i \in 1..Len(asm.iterations) |->
                                  ClassifyIteration(asm.iterations[i], asm.now, asm.zone)]]
    /\ UNCHANGED collectVars

NextIterations == IterationsStep

SpecIterations == InitIterations /\ [][NextIterations]_vars

\* The reference date: the local calendar day of the reference instant, as
\* a number of days since 2023-12-31.
ReferenceDay == (asm.now + asm.zone) \div DayTicks

Parsable(i) == \E k \in DOMAIN Calendar : Calendar[k] = asm.iterations[i].StartDate

\* The start date and the end date (start + duration) of a parsable
\* iteration, as days since 2023-12-31.
StartDay(i) == CHOOSE k \in DOMAIN Calendar : Calendar[k] = asm.iterations[i].StartDate

EndDay(i) == StartDay(i) + asm.iterations[i].Duration

ContainsReferenceDay(i) == Parsable(i) /\ StartDay(i) <= ReferenceDay /\ ReferenceDay < EndDay(i)

IterIdx == 1..Len(asm.iterations)

\* C14: every iteration whose [start, start+duration) window contains the
\* reference date is never returned as previous or next, and is the one
\* returned as current when it is the only such iteration.
C14_CurrentContainsReferenceDate ==
    asm.phase = "out" =>
        \A i \in IterIdx :
            ContainsReferenceDay(i) =>
                /\ asm.result.Previous # i
                /\ asm.result.Next # i
                /\ (\A j \in IterIdx : ContainsReferenceDay(j) => j = i) =>
                       asm.result.Current = i

\* C15: previous, if present, has end <= today and the maximum end among
\* the iterations with end <= today; next, if present, has start > today and
\* the minimum start among those with start > today; previous is absent only
\* if no iteration has elapsed, next only if none lies in the future.
C15_PreviousLatestNextEarliest ==
    asm.phase = "out" =>
        LET elapsed == {j \in IterIdx : Parsable(j) /\ EndDay(j) <= ReferenceDay}
            future == {j \in IterIdx : Parsable(j) /\ StartDay(j) > ReferenceDay}
            p == asm.result.Previous
            n == asm.result.Next
        IN  /\ p # NilIter => p \in elapsed /\ \A j \in elapsed : EndDay(j) <= EndDay(p)
            /\ n # NilIter => n \in future /\ \A j \in future : StartDay(n) <= StartDay(j)
            /\ p = NilIter => elapsed = {}
            /\ n = NilIter => future = {}

\* C16: an iteration whose start date cannot be parsed is treated as
\* elapsed: ClassifyIteration calls it previous, and FindRelevantIterations
\* takes it as a candidate for previous, so that previous is present whenever
\* the list holds such an iteration.
C16_UnparsableIsElapsed ==
    asm.phase = "out" =>
        \A i \in IterIdx :
            ~Parsable(i) =>
                /\ asm.classes[i] = "previous"
                /\ asm.result.Previous # NilIter

\* Where local time is not ahead of UTC the three pointers agree with the
\* calendar reading of the windows.
WestOfUTC_IterationsByDate ==
    asm.zone <= 0 => C14_CurrentContainsReferenceDate /\ C15_PreviousLatestNextEarliest

\* ------------------------------------------------------- the Synthesizer

\* The bound on the length of the record lists of an aggregate handed to
\* extractWorkItems.
MaxWork == 2

\* time.Now() of the explored calls: 2024-01-03T08:00Z.
WorkNow == 3 * DayTicks + 1

\* The instants the records carry: the last three ticks up to WorkNow, which
\* lie before, at or after local midnight depending on the zone.
WorkTimes == (WorkNow - 2)..WorkNow

\* gh.PullRequest as extractWorkItems reads it, as GitHub fills it (a draft
\* cannot be merged).
WorkPRs(n) ==
    { pr \in [number : {n}, user : Users, state : {"open", "closed"}, draft : BOOLEAN,
              createdAt : WorkTimes, mergedAt : WorkTimes \cup {NilTime},
              closedAt : WorkTimes \cup {NilTime}] :
        /\ pr.state = "open" => pr.mergedAt = NilTime /\ pr.closedAt = NilTime
        /\ pr.state = "closed" => pr.closedAt # NilTime /\ pr.createdAt <= pr.closedAt
        /\ pr.mergedAt # NilTime => pr.mergedAt = pr.closedAt /\ ~pr.draft }

\* gh.Issue as extractWorkItems reads it; Assignees is a list of logins.
WorkIssues(n) ==
    { is \in [number : {n}, user : Users, state : {"open", "closed"},
              createdAt : WorkTimes, closedAt : WorkTimes \cup {NilTime},
              assignees : {<<>>, <<"alice">>, <<"bob">>, <<"bob", "alice">>}] :
        /\ is.state = "open" => is.closedAt = NilTime
        /\ is.state = "closed" => is.closedAt # NilTime /\ is.createdAt <= is.closedAt }

\* GetIssueURL() / GetPullRequestURL() of a comment: the URL of issue or
\* pull request 1 or 2 (shortened to its last separator and number), or the
\* empty string of a comment without the field.
TargetURLs == {<<"i", "/", "1">>, <<"i", "/", "2">>, <<>>}

\* gh.IssueComment / gh.PullRequestComment as extractWorkItems reads it.
WorkComments(n) == [user : Users, createdAt : {WorkNow - 2, WorkNow}, url : TargetURLs]

\* gh.PullRequestReview
WorkReviews ==
    { <<>>,
      << [user |-> "bob", state |-> "APPROVED"] >>,
      << [user |-> "bob", state |-> "PENDING"] >>,
      << [user |-> "bob", state |-> "APPROVED"], [user |-> "bob", state |-> "APPROVED"],
         [user |-> "alice", state |-> "COMMENTED"] >> }

IsDigit(c) == c \in {"0", "1", "2", "3", "4", "5", "6", "7", "8", "9"}

\* The text after the last "/" of a string (the whole string without one).
LastPart(url) ==
    LET seps == {k \in 1..Len(url) : url[k] = "/"}
    IN  IF seps = {} THEN url
        ELSE SubSeq(url, (CHOOSE k \in seps : \A j \in seps : j <= k) + 1, Len(url))

\* strconv.Atoi(s): [err, n].
RECURSIVE AtoiDigits(_)
AtoiDigits(ds) ==
    IF ds = <<>> THEN 0
    ELSE 10 * AtoiDigits(SubSeq(ds, 1, Len(ds) - 1))
         + (CHOOSE d \in 0..9 : ToString(d) = ds[Len(ds)])

Atoi(str) ==
    LET signed == str # <<>> /\ str[1] \in {"+", "-"}
        ds == IF signed THEN Tail(str) ELSE str
    IN  IF ds = <<>> \/ \E k \in 1..Len(ds) : ~IsDigit(ds[k]) THEN [err |-> TRUE, n |-> 0]
        ELSE [err |-> FALSE, n |-> IF signed /\ str[1] = "-" THEN 0 - AtoiDigits(ds)
                                    ELSE AtoiDigits(ds)]

\* extractNumber(url)
extractNumber(url) ==
    LET last == LastPart(url)
    IN  IF /\ \E k \in 1..Len(url) : url[k] = "/"
           /\ last # <<>>
           /\ \A j \in 1..Len(last) : IsDigit(last[j])
        THEN last
        ELSE IF ~Atoi(last).err THEN last
        ELSE <<"?">>

\* fmt.Sprintf("%d", n) for the numbers explored (one digit).
Decimal(n) == <<ToString(n)>>

\* fmt.Sprintf("%s#%d", fullRepo, number) and fullRepo + "#" + num
PRKey(fullRepo, num) == fullRepo \o <<"#">> \o num

\* hasAssignee(assignees, login)
hasAssignee(assignees, login) == \E k \in 1..Len(assignees) : assignees[k] = login

\* issueWorkedSince(issue, since)
issueWorkedSince(issue, since) ==
    IF issue.state = "open" THEN TRUE
    ELSE IF ~Before(issue.createdAt, since) THEN TRUE
    ELSE IF issue.closedAt # NilTime /\ ~Before(issue.closedAt, since) THEN TRUE
    ELSE FALSE

\* prDisplayState(pr)
prDisplayState(pr) ==
    IF pr.mergedAt # NilTime THEN "merged"
    ELSE IF pr.draft THEN "draft"
    ELSE pr.state

\* The loop of buildReviewSummary over the first k reviews: the parts and
\* the keys seen.
RECURSIVE ReviewParts(_, _)
ReviewParts(reviews, k) ==
    IF k = 0 THEN [parts |-> <<>>, seen |-> {}]
    ELSE LET acc == ReviewParts(reviews, k - 1)
             r == reviews[k]
             key == r.user \o ":" \o r.state
         IN  IF r.state = "PENDING" THEN acc
             ELSE IF key \in acc.seen THEN acc
             ELSE [parts |-> Append(acc.parts, "@" \o r.user \o " " \o r.state),
                   seen |-> acc.seen \cup {key}]

\* strings.Join(parts, sep)
RECURSIVE Join(_, _)
Join(parts, sep) ==
    IF parts = <<>> THEN ""
    ELSE IF Len(parts) = 1 THEN parts[1]
    ELSE parts[1] \o sep \o Join(Tail(parts), sep)

\* buildReviewSummary(reviews)
buildReviewSummary(reviews) ==
    IF Len(reviews) = 0 THEN ""
    ELSE Join(ReviewParts(reviews, Len(reviews)).parts, "; ")

\* The first loop of extractWorkItems over rr.PullRequests: the keys of the
\* pull requests the user authored.
AuthorKeys(rr, fullRepo, user) ==
    { PRKey(fullRepo, Decimal(rr.PullRequests[k].number)) :
        k \in {j \in 1..Len(rr.PullRequests) :
                  ~(user # NoUser /\ rr.PullRequests[j].user # user)} }

\* The second loop over rr.PullRequests: the items of kind pr.
RECURSIVE PRItems(_, _, _, _, _)
PRItems(prs, rr, fullRepo, user, today) ==
    IF prs = <<>> THEN <<>>
    ELSE LET pr == Head(prs)
             rest == PRItems(Tail(prs), rr, fullRepo, user, today)
         IN  IF user # NoUser /\ pr.user # user THEN rest
             ELSE IF ~prWorkedSince(pr, today) THEN rest
             ELSE << [Type |-> "pr", Repo |-> fullRepo, Number |-> pr.number,
                      State |-> prDisplayState(pr),
                      ReviewInfo |-> buildReviewSummary(MapGet(rr.Reviews, pr.number))] >>
                  \o rest

\* Mutant: the issues loop without its check of the assignees.
RECURSIVE IssueItemsAnyAssignee(_, _, _, _)
IssueItemsAnyAssignee(issues, fullRepo, user, today) ==
    IF issues = <<>> THEN <<>>
    ELSE LET issue == Head(issues)
             rest == IssueItemsAnyAssignee(Tail(issues), fullRepo, user, today)
         IN  IF user # NoUser /\ issue.user # user THEN rest
             ELSE IF ~issueWorkedSince(issue, today) THEN rest
             ELSE << [Type |-> "issue", Repo |-> fullRepo, Number |-> issue.number,
                      State |-> issue.state, ReviewInfo |-> ""] >> \o rest

\* The loop over rr.Issues: the items of kind issue.
RECURSIVE IssueItems(_, _, _, _)
IssueItems(issues, fullRepo, user, today) ==
    IF issues = <<>> THEN <<>>
    ELSE LET issue == Head(issues)
             rest == IssueItems(Tail(issues), fullRepo, user, today)
         IN  IF user # NoUser /\ issue.user # user THEN rest
             ELSE IF user # NoUser /\ Len(issue.assignees) > 0
                     /\ ~hasAssignee(issue.assignees, user) THEN rest
             ELSE IF ~issueWorkedSince(issue, today) THEN rest
             ELSE << [Type |-> "issue", Repo |-> fullRepo, Number |-> issue.number,
                      State |-> issue.state, ReviewInfo |-> ""] >> \o rest

\* The loops over rr.IssueComments and rr.ReviewComments, up to and
\* including the k-th comment: the items of the given kind and the map
\* commentedIssues / reviewedPRs, which is made anew for each aggregate.
RECURSIVE CommentItems(_, _, _, _, _, _, _)
CommentItems(kind, comments, k, fullRepo, user, today, prAuthorKeys) ==
    IF k = 0 THEN [items |-> <<>>, seen |-> {}]
    ELSE LET acc == CommentItems(kind, comments, k - 1, fullRepo, user, today, prAuthorKeys)
             c == comments[k]
             num == extractNumber(c.url)
             key == PRKey(fullRepo, num)
         IN  IF user # NoUser /\ c.user # user THEN acc
             ELSE IF Before(c.createdAt, today) THEN acc
             ELSE IF key \in prAuthorKeys THEN acc
             ELSE IF key \in acc.seen THEN acc
             ELSE [items |-> Append(acc.items,
                                    [Type |-> kind, Repo |-> fullRepo, Number |-> Atoi(num).n,
                                     State |-> "", ReviewInfo |-> ""]),
                   seen |-> acc.seen \cup {key}]

\* The loop of extractWorkItems over the first i aggregates: the items and
\* the map prAuthorKeys, which is shared by all aggregates.
RECURSIVE WorkLoop(_, _, _, _)
WorkLoop(reps, i, user, today) ==
    IF i = 0 THEN [items |-> <<>>, prAuthorKeys |-> {}]
    ELSE LET acc == WorkLoop(reps, i - 1, user, today)
             rr == reps[i]
             fullRepo == rr.Owner \o <<"/">> \o rr.Repo
             keys == acc.prAuthorKeys \cup AuthorKeys(rr, fullRepo, user)
         IN  [items |-> acc.items
                        \o PRItems(rr.PullRequests, rr, fullRepo, user, today)
                        \o IssueItems(rr.Issues, fullRepo, user, today)
                        \o CommentItems("comment", rr.IssueComments, Len(rr.IssueComments),
                                        fullRepo, user, today, keys).items
                        \o CommentItems("review", rr.ReviewComments, Len(rr.ReviewComments),
                                        fullRepo, user, today, keys).items,
              prAuthorKeys |-> keys]

\* extractWorkItems(reports, user), called at instant now in a zone.
extractWorkItems(reps, user, now, zone) ==
    WorkLoop(reps, Len(reps), user, TodayOf(now, zone)).items

\* An aggregate as Collect returns it, with the given lists.
WorkReport(repo, prs, issues, cs, rcs, reviews) ==
    [NewRepoReport(<<"a">>, repo) EXCEPT
        !.PullRequests = prs, !.Issues = issues, !.IssueComments = cs,
        !.ReviewComments = rcs, !.Reviews = reviews]

\* The pull requests of an aggregate of the comment inputs: none, one that
\* alice opened and closed two ticks ago, or an open one of bob.
AuthoredPRs ==
    { <<>>,
      << [number |-> 1, user |-> "alice", state |-> "closed", draft |-> FALSE,
          createdAt |-> WorkNow - 2, mergedAt |-> NilTime, closedAt |-> WorkNow - 2] >>,
      << [number |-> 1, user |-> "bob", state |-> "open", draft |-> FALSE,
          createdAt |-> WorkNow - 2, mergedAt |-> NilTime, closedAt |-> NilTime] >> }

WorkInput(reps, u, z) ==
    [phase |-> "in", reports |-> reps, user |-> u, now |-> WorkNow, zone |-> z,
     items |-> <<>>]

\* Two aggregates of one repository list the same pull requests, unless one
\* of the two listings was taken before the pull request existed.
SameListings(a, b) ==
    a.Repo = b.Repo =>
        \/ a.PullRequests = <<>>
        \/ b.PullRequests = <<>>
        \/ a.PullRequests = b.PullRequests

\* Lists of one or two aggregates, the first of repository a/x, the second
\* of a/x again or of a/y, whose comment lists of one kind ("comment":
\* IssueComments, "review": ReviewComments) are drawn from all lists of at
\* most n comments for the first and at most one for the second.
CommentReports(kind, n) ==
    LET Rep(repo, prs, cs) ==
            IF kind = "comment" THEN WorkReport(repo, prs, <<>>, cs, <<>>, <<>>)
            ELSE WorkReport(repo, prs, <<>>, <<>>, cs, <<>>)
        firsts == {Rep(<<"x">>, prs, cs) : prs \in AuthoredPRs, cs \in Listings(WorkComments, n)}
        seconds == {Rep(repo, prs, cs) : repo \in {<<"x">>, <<"y">>}, prs \in AuthoredPRs,
                                         cs \in Listings(WorkComments, Min(n, 1))}
    IN  {<<a>> : a \in firsts}
        \cup {p \in {<<a, b>> : a \in firsts, b \in seconds} : SameListings(p[1], p[2])}

\* The inputs of SpecWorkItems: one kind of record is drawn from all its
\* lists, the other lists of the aggregate are empty.
PRInputs(n) ==
    {WorkInput(<<WorkReport(<<"x">>, prs, <<>>, <<>>, <<>>, <<>>)>>, u, z) :
        prs \in Listings(WorkPRs, n), u \in UserFilters, z \in Zones}

ReviewedPRInputs ==
    {WorkInput(<<WorkReport(<<"x">>, <<pr>>, <<>>, <<>>, <<>>, (1 :> rv))>>, u, z) :
        pr \in WorkPRs(1), rv \in WorkReviews \ {<<>>}, u \in UserFilters, z \in Zones}

IssueInputs(n) ==
    {WorkInput(<<WorkReport(<<"x">>, <<>>, is, <<>>, <<>>, <<>>)>>, u, z) :
        is \in Listings(WorkIssues, n), u \in UserFilters, z \in Zones}

CommentInputs(kind, n) ==
    {WorkInput(reps, u, 0) : reps \in CommentReports(kind, n), u \in UserFilters}

\* The issues of an aggregate of the issue-comment inputs: issue 1, open,
\* opened two ticks ago by alice or by bob.
AuthoredIssues ==
    { << [number |-> 1, user |-> u, state |-> "open", createdAt |-> WorkNow - 2,
          closedAt |-> NilTime, assignees |-> <<>>] >> : u \in Users }

\* One aggregate of a/x with an issue and every list of at most n issue
\* comments.
IssueCommentInputs(n) ==
    {WorkInput(<<WorkReport(<<"x">>, <<>>, is, cs, <<>>, <<>>)>>, u, 0) :
        is \in AuthoredIssues, cs \in Listings(WorkComments, n), u \in UserFilters}

InitWorkItems ==
    /\ CollectIdle
    /\ \/ asm \in PRInputs(MaxWork)
       \/ asm \in ReviewedPRInputs
       \/ asm \in IssueInputs(MaxWork)
       \/ asm \in CommentInputs("comment", MaxWork)
       \/ asm \in CommentInputs("review", MaxWork)
       \/ asm \in IssueCommentInputs(MaxWork)

\* items := extractWorkItems(reports, user)
WorkItemsStep ==
    /\ asm.phase = "in"
    /\ asm' = [asm EXCEPT
                  !.phase = "out",
                  !.items = extractWorkItems(asm.reports, asm.user, asm.now, asm.zone)]
    /\ UNCHANGED collectVars

NextWorkItems == WorkItemsStep

SpecWorkItems == InitWorkItems /\ [][NextWorkItems]_vars

\* Two entries of the result are of the same kind and name the same
\* (repo, number).
SameTarget(a, b) == a.Type = b.Type /\ a.Repo = b.Repo /\ a.Number = b.Number

ItemIdx == 1..Len(asm.items)

\* C17: for every list of aggregates, also one in which two aggregates name
\* the same owner/repo, the result holds no two entries of kind comment with
\* the same (repo, number) and no two of kind review with the same
\* (repo, number).
C17_NoDuplicateCommentEntries ==
    asm.phase = "out" =>
        \A i, j \in ItemIdx :
            (i < j /\ asm.items[i].Type \in {"comment", "review"}) =>
                ~SameTarget(asm.items[i], asm.items[j])

\* Over lists whose aggregates name different repositories the comment and
\* review entries are free of duplicates.
DistinctRepos_NoDuplicateCommentEntries ==
    (\A i, j \in 1..Len(asm.reports) :
        i # j => asm.reports[i].Repo # asm.reports[j].Repo)
    => C17_NoDuplicateCommentEntries

\* (repo, number) names a pull request of the aggregates that the filtering
\* user authored (any pull request when no filter is set).
AuthoredTarget(repo, number) ==
    \E r \in 1..Len(asm.reports) :
        /\ FullName(asm.reports[r].Owner, asm.reports[r].Repo) = repo
        /\ \E k \in 1..Len(asm.reports[r].PullRequests) :
              /\ asm.reports[r].PullRequests[k].number = number
              /\ AuthoredByFiltered(asm.reports[r].PullRequests[k])

\* C18: the result holds no comment or review entry whose (repo, number) is
\* a pull request of the aggregates authored by the filtering user, whatever
\* the dates of that pull request.
C18_NoEntryOnOwnPullRequest ==
    asm.phase = "out" =>
        \A i \in ItemIdx :
            asm.items[i].Type \in {"comment", "review"} =>
                ~AuthoredTarget(asm.items[i].Repo, asm.items[i].Number)

\* Over lists whose aggregates name different repositories no comment or
\* review entry names a pull request of the user.
DistinctRepos_NoEntryOnOwnPullRequest ==
    (\A i, j \in 1..Len(asm.reports) :
        i # j => asm.reports[i].Repo # asm.reports[j].Repo)
    => C18_NoEntryOnOwnPullRequest

\* Today: local midnight of the current instant, the latest instant not
\* after now at which the local clock reads 00:00.
LocalMidnight ==
    CHOOSE t \in (asm.now - DayTicks + 1)..asm.now : (t + asm.zone) % DayTicks = 0

\* Issue activity-since(today) as the specification words it.
IssueActiveToday(issue) ==
    \/ issue.state = "open"
    \/ issue.createdAt >= LocalMidnight
    \/ issue.closedAt # NilTime /\ issue.closedAt >= LocalMidnight

\* The issue yields an entry according to the specification.
IssueQualifies(issue) ==
    /\ issue.user = asm.user
    /\ issue.assignees = <<>> \/ \E k \in 1..Len(issue.assignees) : issue.assignees[k] = asm.user
    /\ IssueActiveToday(issue)

\* The entries of one kind for a record of the r-th aggregate.
EntriesFor(kind, r, number) ==
    {i \in ItemIdx :
        /\ asm.items[i].Type = kind
        /\ asm.items[i].Repo = FullName(asm.reports[r].Owner, asm.reports[r].Repo)
        /\ asm.items[i].Number = number}

\* C19: with a user filter set, an issue yields an entry of kind issue if
\* and only if the user authored it, it has no assignees or the user is among
\* them, and it is open, or created or closed at or after today; an issue of
\* the user assigned solely to others yields none.
C19_IssueEntries ==
    (asm.phase = "out" /\ asm.user # NoUser) =>
        /\ \A r \in 1..Len(asm.reports) :
              \A j \in 1..Len(asm.reports[r].Issues) :
                  LET issue == asm.reports[r].Issues[j]
                  IN  /\ IssueQualifies(issue) <=> EntriesFor("issue", r, issue.number) # {}
                      /\ \A i \in EntriesFor("issue", r, issue.number) :
                            asm.items[i].State = issue.state
        /\ \A i \in ItemIdx :
              asm.items[i].Type = "issue" =>
                  \E r \in 1..Len(asm.reports) :
                      \E j \in 1..Len(asm.reports[r].Issues) :
                          i \in EntriesFor("issue", r, asm.reports[r].Issues[j].number)

\* C19 witness: alice's open issue assigned to bob alone yielded no entry,
\* and her issue assigned to bob and her, created before today and closed at
\* local midnight, yielded one.
C19_Witness ==
    /\ asm.phase = "out"
    /\ asm.user = "alice"
    /\ Len(asm.reports) = 1
    /\ Len(asm.reports[1].Issues) = 2
    /\ asm.reports[1].Issues[1].user = "alice"
    /\ asm.reports[1].Issues[1].state = "open"
    /\ asm.reports[1].Issues[1].assignees = <<"bob">>
    /\ asm.reports[1].Issues[2].user = "alice"
    /\ asm.reports[1].Issues[2].assignees = <<"bob", "alice">>
    /\ asm.reports[1].Issues[2].state = "closed"
    /\ asm.reports[1].Issues[2].createdAt < LocalMidnight
    /\ asm.reports[1].Issues[2].closedAt = LocalMidnight
    /\ Len(asm.items) = 1
    /\ asm.items[1].Type = "issue"
    /\ asm.items[1].Number = 2

\* The displayed state of a pull request as the specification words it.
DisplayedState(pr) ==
    CASE pr.mergedAt # NilTime -> "merged"
      [] pr.mergedAt = NilTime /\ pr.draft -> "draft"
      [] OTHER -> pr.state

\* C20: a pull request yields an entry of kind pr if and only if the
\* filtered user (when set) authored it and it is open, or created, merged or
\* closed at or after today, local midnight of the current instant; the
\* entry's state is merged, else draft, else the raw state; an open pull
\* request of the user without reviews appears with state open and an empty
\* review summary.
C20_PullRequestEntries ==
    asm.phase = "out" =>
        /\ \A r \in 1..Len(asm.reports) :
              \A j \in 1..Len(asm.reports[r].PullRequests) :
                  LET pr == asm.reports[r].PullRequests[j]
                      entries == EntriesFor("pr", r, pr.number)
                  IN  /\ (AuthoredByFiltered(pr) /\ ActivitySince(pr, LocalMidnight))
                            <=> entries # {}
                      /\ \A i \in entries :
                            /\ asm.items[i].State = DisplayedState(pr)
                            /\ pr.number \notin DOMAIN asm.reports[r].Reviews =>
                                  asm.items[i].ReviewInfo = ""
                      /\ (pr.state = "open" /\ ~pr.draft /\ asm.user = pr.user
                          /\ pr.number \notin DOMAIN asm.reports[r].Reviews) =>
                            \E i \in entries : /\ asm.items[i].State = "open"
                                               /\ asm.items[i].ReviewInfo = ""
        /\ \A i \in ItemIdx :
              asm.items[i].Type = "pr" =>
                  \E r \in 1..Len(asm.reports) :
                      \E j \in 1..Len(asm.reports[r].PullRequests) :
                          i \in EntriesFor("pr", r, asm.reports[r].PullRequests[j].number)

\* C20 witness: with the filter alice, her open pull request without
\* reviews, created before today, is the first entry, of state open and
\* empty review summary; her second one, closed earlier today after local
\* midnight, is listed as closed.
C20_Witness ==
    /\ asm.phase = "out"
    /\ asm.user = "alice"
    /\ Len(asm.reports) = 1
    /\ Len(asm.reports[1].PullRequests) = 2
    /\ asm.reports[1].Reviews = <<>>
    /\ asm.reports[1].PullRequests[1].user = "alice"
    /\ asm.reports[1].PullRequests[1].state = "open"
    /\ asm.reports[1].PullRequests[1].createdAt < LocalMidnight
    /\ asm.reports[1].PullRequests[2].user = "alice"
    /\ asm.reports[1].PullRequests[2].createdAt < LocalMidnight
    /\ asm.reports[1].PullRequests[2].closedAt >= LocalMidnight
    /\ asm.reports[1].PullRequests[2].closedAt < asm.now
    /\ asm.reports[1].PullRequests[2].mergedAt = NilTime
    /\ ~asm.reports[1].PullRequests[2].draft
    /\ Len(asm.items) = 2
    /\ asm.items[1] = [Type |-> "pr", Repo |-> <<"a", "/", "x">>, Number |-> 1,
                       State |-> "open", ReviewInfo |-> ""]
    /\ asm.items[2].State = "closed"

\* ------------------------------------------- Fetcher followed by Synthesizer

\* since := time.Now().AddDate(0, 0, -opts.Days), in ticks.
SinceTicks(now, days) == AddDays(now, 0 - days)

\* The instants of the end-to-end inputs: a month ago, two weeks ago, and
\* every tick from local yesterday's earliest start to now.
PipelineTimes ==
    {AddDays(WorkNow, 0 - 30), AddDays(WorkNow, 0 - 14)} \cup (WorkNow - 2 * DayTicks)..WorkNow

\* Pull request 1 of a/x as the listing returns it.
PipelinePRs(n) ==
    { pr \in [number : {n}, user : Users, state : {"open", "closed"}, draft : {FALSE},
              createdAt : PipelineTimes, mergedAt : PipelineTimes \cup {NilTime},
              closedAt : PipelineTimes \cup {NilTime}] :
        /\ pr.state = "open" => pr.mergedAt = NilTime /\ pr.closedAt = NilTime
        /\ pr.state = "closed" => pr.closedAt # NilTime /\ pr.createdAt <= pr.closedAt
        /\ pr.mergedAt # NilTime => pr.mergedAt = pr.closedAt }

\* Comments on number 1 as the two comment listings return them (they are
\* asked for comments since the cutoff).
PipelineComments(n) ==
    [user : Users, createdAt : {WorkNow - DayTicks, WorkNow}, url : {<<"i", "/", "1">>}]

PipelineInputs(n) ==
    { [phase |-> "in", rawPRs |-> prs, rawComments |-> cs, rawRevComments |-> rcs,
       user |-> u, now |-> WorkNow, zone |-> z, rr |-> ZeroReport, items |-> <<>>] :
        prs \in Listings(PipelinePRs, n), cs \in Listings(PipelineComments, n),
        rcs \in Listings(PipelineComments, n), u \in UserFilters, z \in Zones }

InitPipeline ==
    /\ CollectIdle
    /\ asm \in PipelineInputs(1)

\* collectRepo of a/x, from its listings to its aggregate, with the cutoff
\* of Collect.
PipelineFetch ==
    /\ asm.phase = "in"
    /\ asm' = [asm EXCEPT
                  !.phase = "fetched",
                  !.rr = Assemble(<<"a">>, <<"x">>, <<>>, asm.rawPRs, asm.rawComments,
                                  asm.rawRevComments, asm.user,
                                  SinceTicks(asm.now, LookbackDays))]
    /\ UNCHANGED collectVars

\* extractWorkItems over the aggregate Collect returned.
PipelineSynthesize ==
    /\ asm.phase = "fetched"
    /\ asm' = [asm EXCEPT
                  !.phase = "out",
                  !.items = extractWorkItems(<<asm.rr>>, asm.user, asm.now, asm.zone)]
    /\ UNCHANGED collectVars

NextPipeline == PipelineFetch \/ PipelineSynthesize

SpecPipeline == InitPipeline /\ [][NextPipeline]_vars

\* The lookback cutoff now - lookbackDays.
LookbackCutoff == asm.now - LookbackDays * DayTicks

\* The pull request of the scenario: merged during the local day before
\* today, created two weeks ago.
MergedYesterday(pr) ==
    /\ pr.state = "closed"
    /\ pr.mergedAt # NilTime
    /\ LocalMidnight - DayTicks <= pr.mergedAt
    /\ pr.mergedAt < LocalMidnight
    /\ pr.createdAt = asm.now - 14 * DayTicks

PREntries(pr) == {i \in ItemIdx : asm.items[i].Type = "pr" /\ asm.items[i].Number = pr.number}

RawPRIdx == 1..Len(asm.rawPRs)

\* C21 as stated: a pull request merged yesterday and created two weeks ago
\* is excluded from the Fetcher's aggregate and from extractWorkItems.
C21_MergedYesterdayExcluded ==
    asm.phase = "out" =>
        \A k \in RawPRIdx :
            MergedYesterday(asm.rawPRs[k]) =>
                /\ ~InSeq(asm.rawPRs[k], asm.rr.PullRequests)
                /\ PREntries(asm.rawPRs[k]) = {}

\* C21 amended: a pull request merged yesterday and created two weeks ago
\* yields no entry of extractWorkItems; the Fetcher excludes it exactly when
\* its merge lies before the lookback cutoff now - lookbackDays (or when the
\* user filter names another author), and keeps it when it was merged
\* yesterday at or after the cutoff.
C21_MergedBeforeCutoffExcluded ==
    asm.phase = "out" =>
        \A k \in RawPRIdx :
            MergedYesterday(asm.rawPRs[k]) =>
                /\ PREntries(asm.rawPRs[k]) = {}
                /\ InSeq(asm.rawPRs[k], asm.rr.PullRequests)
                       <=> (AuthoredByFiltered(asm.rawPRs[k])
                            /\ asm.rawPRs[k].mergedAt >= LookbackCutoff)

\* C21 witness: alice's pull request merged yesterday before the cutoff was
\* listed and is neither in the aggregate nor in the work items, under her
\* filter.
C21_Witness ==
    /\ asm.phase = "out"
    /\ asm.user = "alice"
    /\ Len(asm.rawPRs) = 1
    /\ asm.rawPRs[1].user = "alice"
    /\ MergedYesterday(asm.rawPRs[1])
    /\ asm.rawPRs[1].mergedAt < LookbackCutoff
    /\ asm.rr.PullRequests = <<>>
    /\ PREntries(asm.rawPRs[1]) = {}

\* C30: end to end, no comment or review entry names a pull request the
\* filtering user authored, also when that pull request was closed or merged
\* before the lookback cutoff.
C30_OwnPullRequestCommentSuppressed ==
    (asm.phase = "out" /\ asm.user # NoUser) =>
        \A k \in RawPRIdx :
            asm.rawPRs[k].user = asm.user =>
                \A i \in ItemIdx :
                    asm.items[i].Type \in {"comment", "review"} =>
                        asm.items[i].Number # asm.rawPRs[k].number

\* ------------------------------------------------------ Synthesizer: plan items

MaxPlan == 1

LowerCase ==
    << "a", "b", "c", "d", "e", "f", "g", "h", "i", "j", "k", "l", "m",
       "n", "o", "p", "q", "r", "s", "t", "u", "v", "w", "x", "y", "z" >>

UpperCase ==
    << "A", "B", "C", "D", "E", "F", "G", "H", "I", "J", "K", "L", "M",
       "N", "O", "P", "Q", "R", "S", "T", "U", "V", "W", "X", "Y", "Z" >>

\* strings.ToUpper(s), over strings held as sequences of characters.
ToUpper(s) ==
    [k \in 1..Len(s) |->
        IF \E j \in DOMAIN LowerCase : LowerCase[j] = s[k]
        THEN UpperCase[CHOOSE j \in DOMAIN LowerCase : LowerCase[j] = s[k]]
        ELSE s[k]]

\* strings.Contains(s, substr)
Contains(s, substr) ==
    \E i \in 0..(Len(s) - Len(substr)) : SubSeq(s, i + 1, i + Len(substr)) = substr

\* containsString(slice, s)
containsString(slice, s) == \E k \in 1..Len(slice) : slice[k] = s

\* The labels of a project's Status field and the states GraphQL reports.
Todo == <<"T", "o", "d", "o">>

Done == <<"D", "o", "n", "e">>

Closed == <<"C", "l", "o", "s", "e", "d">>

StatusLabels == {<<>>, Todo, Done, Closed}

ItemStates == {<<"O", "P", "E", "N">>, <<"C", "L", "O", "S", "E", "D">>,
               <<"M", "E", "R", "G", "E", "D">>}

\* The url of issue or pull request n of a repository
\* (https://github.com/<owner>/<repo>/issues/<n>, host shortened to g).
ItemURL(fullRepo, n) == <<"g", "/">> \o fullRepo \o <<"/">> \o Decimal(n)

\* ProjectItem.Iteration of an item without an iteration value.
NoIteration == 0

\* gh.PullRequest as extractPlanItems reads it; a closed pull request keeps
\* its draft flag, a merged one is closed.
PlanPRs(n) ==
    { pr \in [number : {n}, user : Users, state : {"open", "closed"}, draft : BOOLEAN,
              mergedAt : {NilTime, WorkNow}, assignees : {<<>>, <<"alice">>, <<"bob">>}] :
        pr.mergedAt # NilTime => pr.state = "closed" /\ ~pr.draft }

\* ProjectItem n of the projects of owner a, as parseProjectItem fills it:
\* an issue or pull request of a/x or of a/xy.
PlanProjectItems(n) ==
    [Number : {n}, URL : {ItemURL(<<"a", "/", "x">>, n), ItemURL(<<"a", "/", "x", "y">>, n)},
     State : ItemStates, Status : StatusLabels, Iteration : {NoIteration, 1, 2},
     Assignees : {<<>>, <<"alice">>, <<"bob">>}]

\* Iterations of one day starting on 2024-01-02, -03 or -04.
PlanIterations(n) ==
    {it \in Iterations(n) :
        it.Duration = 1 /\ it.StartDate \in {Calendar[2], Calendar[3], Calendar[4]}}

\* One round of the loop over rr.PullRequests (source 1); acc holds items
\* and the keys of seen.
PlanPRStep(acc, fullRepo, pr, user) ==
    LET state == prDisplayState(pr)
        key == PRKey(fullRepo, Decimal(pr.number))
    IN  IF user # NoUser /\ pr.user # user THEN acc
        ELSE IF user # NoUser /\ Len(pr.assignees) > 0 /\ ~hasAssignee(pr.assignees, user)
        THEN acc
        ELSE IF state = "merged" \/ state = "closed" THEN acc
        ELSE IF key \in acc.seen THEN acc
        ELSE [items |-> Append(acc.items,
                               [Repo |-> fullRepo, Number |-> pr.number, Status |-> <<>>,
                                Source |-> "open_pr"]),
              seen |-> acc.seen \cup {key}]

RECURSIVE PlanPRLoop(_, _, _, _, _)
PlanPRLoop(acc, fullRepo, prs, k, user) ==
    IF k = 0 THEN acc
    ELSE PlanPRStep(PlanPRLoop(acc, fullRepo, prs, k - 1, user), fullRepo, prs[k], user)

\* The first loop over the aggregates, up to and including aggregate i.
RECURSIVE PlanOpenPRs(_, _, _)
PlanOpenPRs(reps, i, user) ==
    IF i = 0 THEN [items |-> <<>>, seen |-> {}]
    ELSE PlanPRLoop(PlanOpenPRs(reps, i - 1, user),
                    reps[i].Owner \o <<"/">> \o reps[i].Repo,
                    reps[i].PullRequests, Len(reps[i].PullRequests), user)

\* Mutant: an entry already present keeps its empty status.
BackFillNone(items, key, status) == items

\* The loop that completes the status of the entry already recorded under
\* key.
BackFill(items, key, status) ==
    [i \in 1..Len(items) |->
        IF PRKey(items[i].Repo, Decimal(items[i].Number)) = key /\ items[i].Status = <<>>
        THEN [items[i] EXCEPT !.Status = status]
        ELSE items[i]]

\* One round of the loop over project.Items (source 2); current is the
\* title of the project's current iteration.
PlanItemStep(acc, fullRepo, item, current, user) ==
    LET upperStatus == ToUpper(item.Status)
        upperState == ToUpper(item.State)
        key == PRKey(fullRepo, Decimal(item.Number))
    IN  IF item.Iteration # current THEN acc
        ELSE IF ~Contains(item.URL, fullRepo) THEN acc
        ELSE IF user # NoUser /\ ~containsString(item.Assignees, user) THEN acc
        ELSE IF \/ upperStatus = <<"D", "O", "N", "E">>
                \/ upperState = <<"C", "L", "O", "S", "E", "D">>
                \/ upperState = <<"M", "E", "R", "G", "E", "D">>
        THEN acc
        ELSE IF key \in acc.seen
        THEN [acc EXCEPT !.items = BackFill(acc.items, key, item.Status)]
        ELSE [items |-> Append(acc.items,
                               [Repo |-> fullRepo, Number |-> item.Number,
                                Status |-> item.Status, Source |-> "project_item"]),
              seen |-> acc.seen \cup {key}]

RECURSIVE PlanItemLoop(_, _, _, _, _, _)
PlanItemLoop(acc, fullRepo, items, k, current, user) ==
    IF k = 0 THEN acc
    ELSE PlanItemStep(PlanItemLoop(acc, fullRepo, items, k - 1, current, user),
                      fullRepo, items[k], current, user)

\* The loop over rr.Projects, up to and including project j.
RECURSIVE PlanProjectLoop(_, _, _, _, _, _, _)
PlanProjectLoop(acc, fullRepo, projects, j, user, now, zone) ==
    IF j = 0 THEN acc
    ELSE LET before == PlanProjectLoop(acc, fullRepo, projects, j - 1, user, now, zone)
             project == projects[j]
             relevant == FindRelevantIterations(project.Iterations, now, zone)
         IN  IF relevant.Current = NilIter THEN before
             ELSE PlanItemLoop(before, fullRepo, project.Items, Len(project.Items),
                               project.Iterations[relevant.Current].Title, user)

\* The second loop over the aggregates, up to and including aggregate i,
\* continuing from the items and seen of the first.
RECURSIVE PlanProjectItemsLoop(_, _, _, _, _)
PlanProjectItemsLoop(reps, i, user, now, zone) ==
    IF i = 0 THEN PlanOpenPRs(reps, Len(reps), user)
    ELSE PlanProjectLoop(PlanProjectItemsLoop(reps, i - 1, user, now, zone),
                         reps[i].Owner \o <<"/">> \o reps[i].Repo,
                         reps[i].Projects, Len(reps[i].Projects), user, now, zone)

\* extractPlanItems(reports, user), called at instant now in a zone.
extractPlanItems(reps, user, now, zone) ==
    PlanProjectItemsLoop(reps, Len(reps), user, now, zone).items

\* An aggregate of a repository of owner a with its pull requests and the
\* projects of a.
PlanReport(repo, prs, projects) ==
    [NewRepoReport(<<"a">>, repo) EXCEPT !.PullRequests = prs, !.Projects = projects]

PlanInput(reps, u, z) ==
    [phase |-> "in", reports |-> reps, user |-> u, now |-> WorkNow, zone |-> z,
     items |-> <<>>]

\* The iteration of 2024-01-03, current at WorkNow in UTC.
ThisIteration == [Title |-> 1, StartDate |-> Calendar[3], Duration |-> 1]

\* An item of a/x in iteration 1 that is not done.
OpenItems(n) ==
    {it \in PlanProjectItems(n) :
        /\ it.URL = ItemURL(<<"a", "/", "x">>, n)
        /\ it.State = <<"O", "P", "E", "N">>
        /\ it.Iteration = 1
        /\ it.Status \in {<<>>, Todo}
        /\ it.Assignees \in {<<>>, <<"alice">>}}

\* Pull-request inputs: a/x, alone or collected twice, with every list of
\* pull requests and a project holding at most n open items.
PlanPRInputs(n) ==
    { PlanInput(reps, u, z) :
        reps \in UNION { {<<r>>, <<r, r>>} :
                           r \in {PlanReport(<<"x">>, prs,
                                             << [Iterations |-> <<ThisIteration>>,
                                                 Items |-> its] >>) :
                                    prs \in Listings(PlanPRs, n),
                                    its \in Listings(OpenItems, n)} },
        u \in UserFilters, z \in Zones }

\* The pull requests of the item inputs: none, or alice's open pull request 1.
PlannedPRs ==
    { <<>>,
      << [number |-> 1, user |-> "alice", state |-> "open", draft |-> FALSE,
          mergedAt |-> NilTime, assignees |-> <<>>] >> }

\* Item inputs: a/x, alone or followed by a/xy, both with the one project of
\* owner a, whose iterations and items are drawn from all lists.
PlanItemInputs(n) ==
    { PlanInput(reps, u, z) :
        reps \in UNION { { <<PlanReport(<<"x">>, prs, <<p>>)>>,
                           <<PlanReport(<<"x">>, prs, <<p>>),
                             PlanReport(<<"x", "y">>, <<>>, <<p>>)>> } :
                           prs \in PlannedPRs,
                           p \in [Iterations : Listings(PlanIterations, 2),
                                  Items : Listings(PlanProjectItems, n)] },
        u \in UserFilters, z \in Zones }

\* Items 1 of a/x and of a/xy in iteration 1, assigned to alice, not done.
PairItems ==
    {it \in PlanProjectItems(1) :
        /\ it.State = <<"O", "P", "E", "N">>
        /\ it.Iteration = 1
        /\ it.Status \in {<<>>, Todo}
        /\ it.Assignees = <<"alice">>}

\* Pair inputs: two items, in one project or in two projects of owner a; the
\* aggregates are a/x alone, a/x twice, or a/x and a/xy.
PlanPairInputs ==
    { PlanInput(reps, u, z) :
        reps \in UNION { { <<PlanReport(<<"x">>, prs, ps)>>,
                           <<PlanReport(<<"x">>, prs, ps), PlanReport(<<"x">>, prs, ps)>>,
                           <<PlanReport(<<"x">>, prs, ps),
                             PlanReport(<<"x", "y">>, <<>>, ps)>> } :
                           prs \in PlannedPRs,
                           ps \in UNION { { << [Iterations |-> <<ThisIteration>>,
                                                Items |-> <<a, b>>] >>,
                                            << [Iterations |-> <<ThisIteration>>,
                                                Items |-> <<a>>],
                                               [Iterations |-> <<ThisIteration>>,
                                                Items |-> <<b>>] >> } :
                                          a \in PairItems, b \in PairItems } },
        u \in UserFilters, z \in Zones }

InitPlanItems ==
    /\ CollectIdle
    /\ \/ asm \in PlanPRInputs(MaxPlan)
       \/ asm \in PlanItemInputs(MaxPlan)
       \/ asm \in PlanPairInputs

\* items := extractPlanItems(reports, user)
PlanItemsStep ==
    /\ asm.phase = "in"
    /\ asm' = [asm EXCEPT
                  !.phase = "out",
                  !.items = extractPlanItems(asm.reports, asm.user, asm.now, asm.zone)]
    /\ UNCHANGED collectVars

NextPlanItems == PlanItemsStep

SpecPlanItems == InitPlanItems /\ [][NextPlanItems]_vars

RepIdx == 1..Len(asm.reports)

RepoOf(r) == FullName(asm.reports[r].Owner, asm.reports[r].Repo)

\* The entries of the result that name (repo, number).
PlanEntries(repo, number) ==
    {i \in ItemIdx : asm.items[i].Repo = repo /\ asm.items[i].Number = number}

\* The filtering user, when set, authored the pull request and is among its
\* assignees when it has any.
PlannedByUser(pr) ==
    asm.user # NoUser =>
        /\ pr.user = asm.user
        /\ pr.assignees # <<>> => \E a \in 1..Len(pr.assignees) : pr.assignees[a] = asm.user

\* Source A: pull request k of aggregate r is open and passes the user
\* filter.
OpenPRSource(r, k) ==
    LET pr == asm.reports[r].PullRequests[k]
    IN  pr.state = "open" /\ pr.mergedAt = NilTime /\ PlannedByUser(pr)

DoneWords == {<<"D", "O", "N", "E">>, <<"C", "L", "O", "S", "E", "D">>,
              <<"M", "E", "R", "G", "E", "D">>}

\* Project p of aggregate r has a current iteration at the reference
\* instant.
HasCurrentIteration(r, p) ==
    FindRelevantIterations(asm.reports[r].Projects[p].Iterations, asm.now, asm.zone).Current
        # NilIter

CurrentTitle(r, p) ==
    LET its == asm.reports[r].Projects[p].Iterations
    IN  its[FindRelevantIterations(its, asm.now, asm.zone).Current].Title

\* Source B: item m of project p of aggregate r is in the project's current
\* iteration, is an issue or pull request of the aggregate's repository, is
\* assigned to the filtering user (when set), and neither its status label
\* nor its state reads DONE, CLOSED or MERGED in any letter case.
CurrentItemSource(r, p, m) ==
    LET item == asm.reports[r].Projects[p].Items[m]
    IN  /\ HasCurrentIteration(r, p)
        /\ item.Iteration = CurrentTitle(r, p)
        /\ item.URL = ItemURL(RepoOf(r), item.Number)
        /\ asm.user # NoUser =>
               \E a \in 1..Len(item.Assignees) : item.Assignees[a] = asm.user
        /\ ToUpper(item.Status) \notin DoneWords
        /\ ToUpper(item.State) \notin DoneWords

\* C22: the result never holds two entries with the same (repo, number);
\* when an open pull request (source A) and a current-iteration project item
\* (source B) name the same (repo, number), exactly one entry names it, and
\* its status is non-empty whenever the item supplied a status.
C22_OneEntryPerTarget ==
    asm.phase = "out" =>
        /\ \A i, j \in ItemIdx :
              (asm.items[i].Repo = asm.items[j].Repo
               /\ asm.items[i].Number = asm.items[j].Number) => i = j
        /\ \A r \in RepIdx : \A k \in 1..Len(asm.reports[r].PullRequests) :
              OpenPRSource(r, k) =>
                 \A q \in RepIdx : \A p \in 1..Len(asm.reports[q].Projects) :
                    \A m \in 1..Len(asm.reports[q].Projects[p].Items) :
                       (/\ CurrentItemSource(q, p, m)
                        /\ RepoOf(q) = RepoOf(r)
                        /\ asm.reports[q].Projects[p].Items[m].Number
                               = asm.reports[r].PullRequests[k].number)
                       => LET named == PlanEntries(RepoOf(r),
                                                   asm.reports[r].PullRequests[k].number)
                          IN  /\ Cardinality(named) = 1
                              /\ asm.reports[q].Projects[p].Items[m].Status # <<>>
                                     => \A i \in named : asm.items[i].Status # <<>>

\* C22 witness: alice's open pull request 1 of a/x and the item of a/x
\* number 1 with status Todo, collected twice, left the single entry of
\* source open_pr with status Todo.
C22_Witness ==
    /\ asm.phase = "out"
    /\ Len(asm.reports) = 2
    /\ Len(asm.reports[1].PullRequests) = 1
    /\ OpenPRSource(1, 1)
    /\ Len(asm.reports[1].Projects[1].Items) = 1
    /\ CurrentItemSource(1, 1, 1)
    /\ asm.reports[1].Projects[1].Items[1].Status = Todo
    /\ asm.items = << [Repo |-> <<"a", "/", "x">>, Number |-> 1, Status |-> Todo,
                       Source |-> "open_pr"] >>

\* C23: every entry of source open_pr comes from a pull request of its
\* repository that the filtering user authored (when a filter is set), that
\* is neither closed nor merged, and whose assignees, if any, include the
\* user; no closed or merged pull request yields such an entry, whatever its
\* draft flag.
C23_OpenPREntries ==
    asm.phase = "out" =>
        \A i \in ItemIdx :
            asm.items[i].Source = "open_pr" =>
                \E r \in RepIdx : \E k \in 1..Len(asm.reports[r].PullRequests) :
                    /\ RepoOf(r) = asm.items[i].Repo
                    /\ asm.reports[r].PullRequests[k].number = asm.items[i].Number
                    /\ OpenPRSource(r, k)

\* Over pull requests that are not closed while still drafts, the entries of
\* source open_pr come from open pull requests of the user.
NoClosedDrafts_OpenPREntries ==
    (\A r \in RepIdx : \A k \in 1..Len(asm.reports[r].PullRequests) :
        ~(asm.reports[r].PullRequests[k].draft
          /\ asm.reports[r].PullRequests[k].state = "closed"))
    => C23_OpenPREntries

\* Entry i was produced or completed by a project item: its source is
\* project_item, or it carries a status (entries of source open_pr start
\* with none).
FromProjectItem(i) == asm.items[i].Source = "project_item" \/ asm.items[i].Status # <<>>

\* C24: an entry produced or back-filled by a project item has an item
\* behind it whose project has a current iteration, whose iteration is that
\* one, whose URL belongs to the entry's repository, which is assigned to
\* the filtering user (when set), and whose status label and state are none
\* of DONE, CLOSED, MERGED in any letter case.
C24_ProjectItemEntries ==
    asm.phase = "out" =>
        \A i \in ItemIdx :
            FromProjectItem(i) =>
                \E r \in RepIdx : \E p \in 1..Len(asm.reports[r].Projects) :
                    \E m \in 1..Len(asm.reports[r].Projects[p].Items) :
                        /\ RepoOf(r) = asm.items[i].Repo
                        /\ asm.reports[r].Projects[p].Items[m].Number = asm.items[i].Number
                        /\ asm.reports[r].Projects[p].Items[m].Status = asm.items[i].Status
                        /\ CurrentItemSource(r, p, m)

\* Over aggregates of a/x, items of a/x and status labels other than Closed,
\* every entry produced or back-filled by a project item has such an item
\* behind it.
SingleRepoNoClosedLabel_ProjectItemEntries ==
    (/\ \A r \in RepIdx : asm.reports[r].Repo = <<"x">>
     /\ \A r \in RepIdx : \A p \in 1..Len(asm.reports[r].Projects) :
           \A m \in 1..Len(asm.reports[r].Projects[p].Items) :
              /\ asm.reports[r].Projects[p].Items[m].Status # Closed
              /\ asm.reports[r].Projects[p].Items[m].URL
                     = ItemURL(<<"a", "/", "x">>, asm.reports[r].Projects[p].Items[m].Number))
    => C24_ProjectItemEntries

\* The URL of the item behind an entry of source project_item is the URL of
\* the entry's (repo, number); an item of a/xy that strings.Contains takes
\* for one of a/x refutes it.
ItemOfEntryRepo_ProjectItemEntries ==
    asm.phase = "out" =>
        \A i \in ItemIdx :
            asm.items[i].Source = "project_item" =>
                \E r \in RepIdx : \E p \in 1..Len(asm.reports[r].Projects) :
                    \E m \in 1..Len(asm.reports[r].Projects[p].Items) :
                        /\ RepoOf(r) = asm.items[i].Repo
                        /\ asm.reports[r].Projects[p].Items[m].URL
                               = ItemURL(asm.items[i].Repo, asm.items[i].Number)

\* A comment of the listing names number n: its parent URL ends in n.
NamesNumber(c, n) == LastPart(c.url) = Decimal(n)

\* Entry i of the work items carries the repository and number of a record
\* of its kind in an aggregate of that repository.
FromInputRecord(i) ==
    \E r \in RepIdx :
        /\ RepoOf(r) = asm.items[i].Repo
        /\ LET rr == asm.reports[r]
               n == asm.items[i].Number
           IN  CASE asm.items[i].Type = "pr" ->
                        \E k \in 1..Len(rr.PullRequests) : rr.PullRequests[k].number = n
                 [] asm.items[i].Type = "issue" ->
                        \E k \in 1..Len(rr.Issues) : rr.Issues[k].number = n
                 [] asm.items[i].Type = "comment" ->
                        \E k \in 1..Len(rr.IssueComments) : NamesNumber(rr.IssueComments[k], n)
                 [] asm.items[i].Type = "review" ->
                        \E k \in 1..Len(rr.ReviewComments) : NamesNumber(rr.ReviewComments[k], n)

\* C25: every entry of the work items carries the repository and number of
\* a pull request, issue or comment target present in the input; no entry
\* carries a number that no input record has, also for comments whose parent
\* URL does not end in a number.
C25_EntriesNameInputRecords ==
    asm.phase = "out" => \A i \in ItemIdx : FromInputRecord(i)

\* Over comments whose parent URL ends in a number every entry names an
\* input record.
NumberedTargets_EntriesNameInputRecords ==
    (\A r \in RepIdx :
        /\ \A k \in 1..Len(asm.reports[r].IssueComments) :
              asm.reports[r].IssueComments[k].url # <<>>
        /\ \A k \in 1..Len(asm.reports[r].ReviewComments) :
              asm.reports[r].ReviewComments[k].url # <<>>)
    => C25_EntriesNameInputRecords

\* (repo, number) names a pull request or an issue of the aggregates that
\* the filtering user authored.
AuthoredItem(repo, number) ==
    \E r \in RepIdx :
        /\ RepoOf(r) = repo
        /\ \/ \E k \in 1..Len(asm.reports[r].PullRequests) :
                 /\ asm.reports[r].PullRequests[k].number = number
                 /\ asm.reports[r].PullRequests[k].user = asm.user
           \/ \E k \in 1..Len(asm.reports[r].Issues) :
                 /\ asm.reports[r].Issues[k].number = number
                 /\ asm.reports[r].Issues[k].user = asm.user

\* C29: under a user filter the result holds no comment or review entry
\* whose (repo, number) is a pull request or an issue that the user authored.
C29_NoEntryOnOwnItem ==
    (asm.phase = "out" /\ asm.user # NoUser) =>
        \A i \in ItemIdx :
            asm.items[i].Type \in {"comment", "review"} =>
                ~AuthoredItem(asm.items[i].Repo, asm.items[i].Number)

\* Over aggregates without issues and naming different repositories, no
\* comment or review entry names an item of the user.
DistinctReposNoIssues_NoEntryOnOwnItem ==
    (/\ \A i, j \in RepIdx : i # j => asm.reports[i].Repo # asm.reports[j].Repo
     /\ \A r \in RepIdx : asm.reports[r].Issues = <<>>)
    => C29_NoEntryOnOwnItem

\* Over a single aggregate no comment entry names an issue of the user;
\* alice's comment on her own issue refutes it.
SingleAggregate_NoEntryOnOwnItem ==
    Len(asm.reports) = 1 => C29_NoEntryOnOwnItem

\* What the data source answered to the listings of repository i decides
\* its aggregate before the review fetches.
AnsweredReport(i) ==
    Assemble(task[i].rr.Owner, task[i].rr.Repo, task[i].raw["issues"], task[i].raw["prs"],
             task[i].raw["comments"], task[i].raw["revcomments"], optsUser, Since)

\* The review fetches the answers to the listings of repository i call for:
\* one per retained pull request, none after a failed listing.
AnsweredReviewCalls(i) ==
    IF FirstListErr(task[i]) # NoErr THEN <<>>
    ELSE CountByNumber(AnsweredReport(i).PullRequests)

\* The error the answers for repository i amount to: the first failed
\* listing in the fixed order, else the first failed review fetch, else none.
AnsweredErr(i) ==
    IF FirstListErr(task[i]) # NoErr THEN FirstListErr(task[i])
    ELSE IF AnsweredReport(i).PullRequests # <<>> /\ FirstReviewErr(task[i]) # 0
    THEN ErrReviews(task[i].rr.Owner, task[i].rr.Repo,
                    AnsweredReport(i).PullRequests[FirstReviewErr(task[i])].number,
                    task[i].revErr[FirstReviewErr(task[i])])
    ELSE NoErr

\* The aggregate the answers for repository i amount to.
AnsweredAggregate(i) ==
    LET rr == AnsweredReport(i)
    IN  [rr EXCEPT
            !.Reviews = IF rr.PullRequests = <<>> THEN <<>>
                        ELSE ReviewsMap(rr.PullRequests, task[i].revRes),
            !.Projects = StoredProjects(orgRes[rr.Owner])]

\* What Collect returns as a function of the repository list and of the
\* answers of the data source alone.
AnsweredReturn ==
    IF FirstMalformed(optsRepos) # 0
    THEN [isNil |-> TRUE, reports |-> <<>>,
          err |-> ErrInvalidRepo(optsRepos[FirstMalformed(optsRepos)]), returns |-> 1]
    ELSE LET errs == [i \in DOMAIN task |-> AnsweredErr(i)]
         IN  IF FirstRepoErr(errs) # 0
             THEN [isNil |-> TRUE, reports |-> <<>>, err |-> errs[FirstRepoErr(errs)],
                   returns |-> 1]
             ELSE [isNil |-> FALSE, reports |-> [i \in DOMAIN task |-> AnsweredAggregate(i)],
                   err |-> NoErr, returns |-> 1]

\* C26: the observer is a side channel: when Collect has returned, the
\* retrievals it issued and the aggregates and error it returned are those
\* that the repository list and the answers of the data source determine,
\* the same whether the observer is absent, does nothing or records.
C26_ObserverIsSideChannel ==
    pc = "done" =>
        /\ \A i \in DOMAIN task : issued.reviews[i] = AnsweredReviewCalls(i)
        /\ \A i \in DOMAIN task : \A op \in Ops : issued.list[i][op] = 1
        /\ \A o \in DOMAIN orgPc : issued.projects[o] = 1
        /\ FirstMalformed(optsRepos) # 0 =>
               issued = [projects |-> <<>>, list |-> <<>>, reviews |-> <<>>]
        /\ ret = AnsweredReturn

\* C26 witness: Collect called without an observer has fetched the reviews
\* of a retained pull request and returned an aggregate carrying them.
C26_Witness ==
    /\ pc = "done"
    /\ progress.impl = "nil"
    /\ ~ret.isNil
    /\ Len(ret.reports) = 1
    /\ ret.reports[1].PullRequests # <<>>
    /\ ret.reports[1].Reviews # <<>>
    /\ issued.reviews[1] # <<>>

\* Collect has returned every aggregate and no error to a caller whose
\* observer records.
ObservedSuccess == pc = "done" /\ ~ret.isNil /\ progress.impl = "recording"

\* C27: on a successful collection the observer has received, for each
\* repository with n retained pull requests, the total 4 + n by SetTotal and
\* one Increment for each of the four listings, for each review fetch and
\* for the final association.
C27_ObserverSteps ==
    ObservedSuccess =>
        \A i \in DOMAIN task :
            LET n == Len(ret.reports[i].PullRequests)
            IN  /\ progress.totals[i] = <<4 + n>>
                /\ progress.steps[i] = 4 + n + 1

\* On a successful collection the observer has received one Increment for
\* each of the four listings and for each review fetch, and the total 4 + n
\* once when n > 0 pull requests are retained, never otherwise.
ListingsAndReviews_ObserverSteps ==
    ObservedSuccess =>
        \A i \in DOMAIN task :
            LET n == Len(ret.reports[i].PullRequests)
            IN  /\ progress.totals[i] = IF n > 0 THEN <<4 + n>> ELSE <<>>
                /\ progress.steps[i] = 4 + n

\* A retrieval has aborted with the cancellation.
RetrievalAborted ==
    \/ \E o \in DOMAIN orgRes : orgRes[o].err = ErrCanceled
    \/ \E i \in DOMAIN task :
          \/ \E op \in Ops : task[i].err[op] = ErrCanceled
          \/ \E k \in DOMAIN task[i].revErr : task[i].revErr[k] = ErrCanceled

\* C28: once a retrieval has aborted with the cancellation, Collect can
\* return: its return does not wait for the tasks still in flight.
C28_ReturnDoesNotWait ==
    (pc = "wait" /\ RetrievalAborted) => ENABLED CollectReturn

\* Collect returns from a cancelled collection only when no project fetch,
\* listing or review fetch is in flight and every goroutine has ended.
Cancelled_ReturnAfterJoin ==
    (pc = "done" /\ cancelled /\ FirstMalformed(optsRepos) = 0) =>
        /\ \A o \in DOMAIN orgPc : orgPc[o] = "done"
        /\ \A i \in DOMAIN task :
              /\ task[i].pc = "done"
              /\ \A op \in Ops : task[i].st[op] # "inflight"
              /\ \A k \in DOMAIN task[i].revSt : task[i].revSt[k] # "inflight"

\* C31: a project item is attributed only to the repository its URL belongs
\* to: with a/x and a/xy both in the list, every entry produced or
\* back-filled by a project item has behind it an item whose URL is that of
\* the entry's own (repo, number); an item of a/xy never yields an entry of
\* a/x.
C31_ItemsAttributedByURL ==
    (/\ asm.phase = "out"
     /\ \E r \in RepIdx : asm.reports[r].Repo = <<"x">>
     /\ \E r \in RepIdx : asm.reports[r].Repo = <<"x", "y">>) =>
        \A i \in ItemIdx :
            FromProjectItem(i) =>
                \E r \in RepIdx : \E p \in 1..Len(asm.reports[r].Projects) :
                    \E m \in 1..Len(asm.reports[r].Projects[p].Items) :
                        /\ asm.reports[r].Projects[p].Items[m].URL
                               = ItemURL(asm.items[i].Repo, asm.items[i].Number)
                        /\ asm.reports[r].Projects[p].Items[m].Status = asm.items[i].Status

\* C32: classification follows the calendar date of the reference instant
\* alone: every iteration whose [start date, start date + duration) holds
\* the local calendar date of the instant, in any zone and at any time of
\* day, is classified current, and the current iteration that
\* FindRelevantIterations returns is such an iteration.
C32_CurrentByCalendarDate ==
    asm.phase = "out" =>
        \A i \in IterIdx :
            ContainsReferenceDay(i) =>
                /\ asm.classes[i] = "current"
                /\ asm.result.Current # NilIter
                /\ ContainsReferenceDay(asm.result.Current)

\* In UTC and west of it every iteration whose dates hold the local date is
\* classified current and a current iteration is returned.
WestOfUTC_CurrentByCalendarDate == asm.zone <= 0 => C32_CurrentByCalendarDate

\* Iteration i passes the window test at the reference instant: the instant
\* of local midnight lies in [start, start + duration).
InWindow(i) ==
    /\ Parsable(i)
    /\ DayTicks * StartDay(i) <= (ReferenceDay * DayTicks - asm.zone)
    /\ (ReferenceDay * DayTicks - asm.zone) < DayTicks * EndDay(i)

MaxListed == 5

\* ListOptions.PerPage, scaled down.
PerPage == 2

\* The update instants of the listed pull requests and the cutoffs asked for.
ListTimes == 1..3

ListSinces == 1..4

\* The listing of the repository as the server orders it for Sort "updated",
\* Direction "desc": numbered pull requests, newest update first.
ServerListings(n) ==
    { l \in UNION {[1..k -> ListTimes] : k \in 0..n} :
        \A k \in 1..(Len(l) - 1) : l[k] >= l[k + 1] }

ListedPR(l, k) == [number |-> k, updatedAt |-> l[k]]

\* The number of pages of a listing; an empty listing has one empty page.
PageCount(l) == IF Len(l) = 0 THEN 1 ELSE (Len(l) + PerPage - 1) \div PerPage

\* c.REST.PullRequests.List with opts.Page = page (0: unset, the first
\* page): the pull requests of the page and resp.NextPage.
PullRequestsList(l, page) ==
    LET p == IF page = 0 THEN 1 ELSE page
        from == (p - 1) * PerPage + 1
        to == Min(p * PerPage, Len(l))
    IN  [prs |-> [k \in 1..(to - from + 1) |-> ListedPR(l, from + k - 1)],
         NextPage |-> IF p < PageCount(l) THEN p + 1 ELSE 0]

\* Mutant: no pull request of a page stops the walk.
StaleAtNever(prs, since) == 0

\* Mutant: a pull request updated exactly at the cutoff stops the walk too.
StaleAtOrEqual(prs, since) ==
    IF \E k \in 1..Len(prs) : prs[k].updatedAt <= since
    THEN CHOOSE k \in 1..Len(prs) :
            prs[k].updatedAt <= since /\ \A j \in 1..(k - 1) : ~(prs[j].updatedAt <= since)
    ELSE 0

\* The inner loop: the index in the page of the first pull request with
\* pr.GetUpdatedAt().Before(since), 0 when the page has none.
StaleAt(prs, since) ==
    IF \E k \in 1..Len(prs) : Before(prs[k].updatedAt, since)
    THEN CHOOSE k \in 1..Len(prs) :
            Before(prs[k].updatedAt, since)
            /\ \A j \in 1..(k - 1) : ~Before(prs[j].updatedAt, since)
    ELSE 0

\* The call ListPullRequests(ctx, owner, repo, since) on a listing; the
\* request of page failAt fails (0: none does).
ListCalls(n) ==
    { [phase |-> "paging", listing |-> l, since |-> t, failAt |-> f, page |-> 0,
       all |-> <<>>, requests |-> <<>>, isNil |-> TRUE, err |-> ""] :
        l \in ServerListings(n), t \in ListSinces, f \in 0..((n + PerPage - 1) \div PerPage) }

InitListPRs ==
    /\ CollectIdle
    /\ asm \in ListCalls(MaxListed)

\* One round of the for loop of ListPullRequests: the page is requested;
\* on an error the call returns nil and the error; otherwise the page is
\* scanned, the call returns at the first pull request updated before since,
\* or after the last page, or goes on to resp.NextPage.
ListPage ==
    /\ asm.phase = "paging"
    /\ LET asked == IF asm.page = 0 THEN 1 ELSE asm.page
           resp == PullRequestsList(asm.listing, asm.page)
           stale == StaleAt(resp.prs, asm.since)
           sent == Append(asm.requests, asked)
       IN  IF asm.failAt = asked
           THEN asm' = [asm EXCEPT !.phase = "out", !.requests = sent,
                                   !.isNil = TRUE, !.err = ErrTransport]
           ELSE IF stale # 0
           THEN asm' = [asm EXCEPT !.phase = "out", !.requests = sent, !.isNil = FALSE,
                                   !.all = asm.all \o SubSeq(resp.prs, 1, stale - 1)]
           ELSE IF resp.NextPage = 0
           THEN asm' = [asm EXCEPT !.phase = "out", !.requests = sent, !.isNil = FALSE,
                                   !.all = asm.all \o resp.prs]
           ELSE asm' = [asm EXCEPT !.requests = sent, !.page = resp.NextPage,
                                   !.all = asm.all \o resp.prs]
    /\ UNCHANGED collectVars

NextListPRs == ListPage

SpecListPRs == InitListPRs /\ [][NextListPRs]_vars

\* The position in the whole listing of the first pull request updated
\* before the cutoff, 0 when there is none.
FirstBeforeCutoff ==
    LET old == {k \in 1..Len(asm.listing) : asm.listing[k] < asm.since}
    IN  IF old = {} THEN 0 ELSE CHOOSE k \in old : \A j \in old : k <= j

\* The page that holds position k of the listing.
PageOfPosition(k) == (k + PerPage - 1) \div PerPage

\* The last page the walk may request: the one holding the first pull
\* request before the cutoff, or the last page of the listing.
LastPageWanted ==
    IF FirstBeforeCutoff # 0 THEN PageOfPosition(FirstBeforeCutoff)
    ELSE PageCount(asm.listing)

\* C33: ListPullRequests requests the pages one after the other from the
\* first, never one beyond the page holding the first pull request updated
\* before the cutoff; when it returns without error it has requested exactly
\* the pages up to that one (all pages if there is no such pull request) and
\* returns, in order, exactly the pull requests that precede it (all of
\* them if there is none).
C33_PagesUntilCutoff ==
    /\ asm.requests = [k \in 1..Len(asm.requests) |-> k]
    /\ Len(asm.requests) <= LastPageWanted
    /\ (asm.phase = "out" /\ asm.err = "") =>
          /\ ~asm.isNil
          /\ Len(asm.requests) = LastPageWanted
          /\ asm.all = [k \in 1..(IF FirstBeforeCutoff # 0 THEN FirstBeforeCutoff - 1
                                  ELSE Len(asm.listing)) |->
                           [number |-> k, updatedAt |-> asm.listing[k]]]

\* C33 witness: in the longest listing the first pull request of the second
\* page is the first updated before the cutoff, and later pages exist; the
\* call returned the whole first page after requesting pages 1 and 2 only.
C33_Witness ==
    /\ asm.phase = "out"
    /\ asm.err = ""
    /\ Len(asm.listing) = MaxListed
    /\ PageCount(asm.listing) > 2
    /\ FirstBeforeCutoff = PerPage + 1
    /\ asm.requests = <<1, 2>>
    /\ Len(asm.all) = PerPage

\* Without a pull request before the cutoff every page is requested and
\* every pull request returned.
C33_WitnessAllPages ==
    /\ asm.phase = "out"
    /\ asm.err = ""
    /\ Len(asm.listing) = MaxListed
    /\ FirstBeforeCutoff = 0
    /\ Len(asm.requests) = PageCount(asm.listing)
    /\ Len(asm.all) = MaxListed

\* ------------------------------------------- the order of Collect's result

\* C36: when Collect returns without error, its result has one aggregate per
\* entry of opts.Repos, in the order of the list: the aggregate at an index
\* carries the owner and name of the entry at that index and holds what the
\* collectRepo goroutine of that index assembled, in every interleaving of
\* the goroutines and also when an entry occurs twice in the list.
C36_ResultFollowsList ==
    (pc = "done" /\ ret.err = NoErr) =>
        /\ ~ret.isNil
        /\ ret.returns = 1
        /\ Len(ret.reports) = Len(optsRepos)
        /\ \A i \in 1..Len(optsRepos) :
              /\ ret.reports[i].Owner = SplitN2(optsRepos[i])[1]
              /\ ret.reports[i].Repo = SplitN2(optsRepos[i])[2]
              /\ ret.reports[i].PullRequests = task[i].rr.PullRequests
              /\ ret.reports[i].Reviews = task[i].rr.Reviews

\* C36 witness: the list names a/x twice; Collect returned two aggregates
\* for a/x, the first with fewer pull requests than the second.
C36_Witness ==
    /\ pc = "done"
    /\ ret.err = NoErr
    /\ optsRepos = << <<"a", "/", "x">>, <<"a", "/", "x">> >>
    /\ Len(ret.reports) = 2
    /\ Len(ret.reports[1].PullRequests) < Len(ret.reports[2].PullRequests)

\* --------------------------------------------- several failures in one run

\* Collect with no observer over a/x alone, or over a/x and then another
\* repository of the same owner or a malformed entry.
InitFailures ==
    CollectCalled({ << <<"a", "/", "x">> >> }
                      \cup { << <<"a", "/", "x">>, e >> : e \in {<<"a", "/", "y">>, <<"a", "x">>} },
                  {"nil"})

\* The steps of Collect, with a cancellation possible whatever the length
\* of the list: every retrieval in flight at the cancellation fails.
NextFailures ==
    \/ Next
    \/ CancelWithin(MaxRepos)

SpecFailures == InitFailures /\ [][NextFailures]_vars

\* The entries of the list of which a retrieval failed.
FailedEntries ==
    {i \in DOMAIN task :
        \/ \E op \in Ops : task[i].st[op] = "err"
        \/ \E k \in DOMAIN task[i].revSt : task[i].revSt[k] = "err"}

\* The listings in the order the statement fixes.
ListingOrder == <<"issues", "prs", "comments", "revcomments">>

ListingLabel ==
    [issues |-> "listing issues", prs |-> "listing PRs",
     comments |-> "listing issue comments", revcomments |-> "listing review comments"]

\* The error the statement designates for a failed entry: its first failed
\* listing in the fixed order, else its first failed review fetch in the
\* order of its pull-request list.
DesignatedError(i) ==
    LET t == task[i]
        failedOps == {n \in 1..4 : t.st[ListingOrder[n]] = "err"}
        failedRevs == {k \in DOMAIN t.revSt : t.revSt[k] = "err"}
    IN  IF failedOps # {}
        THEN LET op == ListingOrder[CHOOSE n \in failedOps : \A x \in failedOps : n <= x]
             IN  <<ListingLabel[op], repos[i].owner, repos[i].repo, 0, t.err[op]>>
        ELSE LET k == CHOOSE n \in failedRevs : \A x \in failedRevs : n <= x
             IN  <<"listing reviews", repos[i].owner, repos[i].repo,
                   t.rr.PullRequests[k].number, t.revErr[k]>>

\* C35: the error a collectRepo goroutine leaves for its entry is the
\* entry's first failure in the order issues, pull requests, issue comments,
\* review comments, then the review fetches in the order of the
\* pull-request list; and when Collect has returned from a run in which
\* retrievals failed, the error it returned is the one of the failed entry
\* with the lowest index in the list; this in every order of completion.
C35_ErrorByListOrder ==
    /\ \A i \in FailedEntries : task[i].pc = "done" => repoErrs[i] = DesignatedError(i)
    /\ (pc = "done" /\ FailedEntries # {}) =>
          /\ ret.isNil
          /\ ret.err =
                DesignatedError(CHOOSE i \in FailedEntries : \A j \in FailedEntries : i <= j)

\* C35 witness: the issue listing of the second entry failed on the
\* transport, the pull-request and comment listings of the first were
\* aborted by the cancellation; Collect returned the first entry's
\* pull-request listing error.
C35_Witness ==
    /\ pc = "done"
    /\ DOMAIN task = {1, 2}
    /\ task[2].st["issues"] = "err"
    /\ task[2].err["issues"] = ErrTransport
    /\ task[1].st["issues"] = "ok"
    /\ task[1].st["prs"] = "err"
    /\ task[1].st["comments"] = "err"
    /\ ret.err = <<"listing PRs", "a", "x", 0, ErrCanceled>>

\* Two review fetches of the first entry failed, the second on the transport
\* and so before the cancellation that aborted the first, and a retrieval of
\* the second entry failed; Collect returned the error of the first pull
\* request of the first entry.
C35_WitnessReviews ==
    /\ pc = "done"
    /\ DOMAIN task = {1, 2}
    /\ 2 \in FailedEntries
    /\ \A op \in Ops : task[1].st[op] = "ok"
    /\ Len(task[1].revSt) >= 2
    /\ task[1].revErr[1] = ErrCanceled
    /\ task[1].revErr[2] = ErrTransport
    /\ ret.err = <<"listing reviews", "a", "x", task[1].rr.PullRequests[1].number, ErrCanceled>>

\* ------------------------------------------------------ Collect terminates

\* A step of Collect or of one of its goroutines, a data-source call
\* returning included; the caller's cancellation is not one.
ProgramStep == Next /\ cancelled' = cancelled

\* Collect under a scheduler that does not stop while a goroutine can run
\* and a data source whose calls all return: a program step that stays
\* possible is eventually taken.  The caller may cancel or not.
SpecLive == Init /\ [][Next]_vars /\ WF_vars(ProgramStep)

\* The mutex is held only by a project goroutine that is between mu.Lock()
\* and its deferred mu.Unlock(), so whoever waits for it will get it.
HolderWillUnlock == \A h \in mu : orgPc[h] = "locked"

\* C34: Collect eventually returns, and it returns once: in every run in
\* which the data-source calls return (with a result or an error), whatever
\* the number of entries, of distinct owners and of pull requests, and
\* whatever fails, Collect reaches its return, it never returns twice, and
\* the mutex is never left held by a goroutine that has finished.
C34_CollectReturnsOnce ==
    /\ [](ret.returns <= 1)
    /\ []HolderWillUnlock
    /\ <>(pc = "done" /\ ret.returns = 1)

\* C34 witness: Collect has returned once from a run over repositories of
\* two owners in which both project goroutines took the mutex in turn and
\* released it, the review fetches of a repository were joined and a
\* retrieval of the other repository failed.
C34_Witness ==
    /\ pc = "done"
    /\ ret.returns = 1
    /\ Cardinality(DOMAIN orgPc) = 2
    /\ \A o \in DOMAIN orgPc : writes.map[o] = 1
    /\ mu = {}
    /\ \E i, j \in DOMAIN task :
          /\ Len(task[i].revSt) > 0
          /\ \A k \in DOMAIN task[i].revSt : task[i].revSt[k] = "ok"
          /\ \E op \in Ops : task[j].st[op] = "err"

\* Collect has returned from a run over the empty list: no owner, no
\* repository, no pull request.
C34_WitnessEmpty ==
    /\ pc = "done"
    /\ ret.returns = 1
    /\ optsRepos = <<>>
    /\ DOMAIN orgPc = {}
    /\ ~ret.isNil

====
